---- MODULE Spec2Model ----
(***************************************************************************)
(* Verification model of the stock data warehouse pipeline:                *)
(*   rules.py     validate_table   (the data-quality rule engine)          *)
(*   merge.py     merge and its table stages (the merge orchestrator)      *)
(*   transform.py calculate_all_kpis (the KPI engine, as far as modelled)  *)
(*                                                                         *)
(* Cell values are tagged records [k, v]:                                  *)
(*   k = "null"   None / NaN (pd.isna)                                     *)
(*   k = "int"    a Python int, v the integer                              *)
(*   k = "float"  a Python float, v the value in tenths (125 is 12.5)      *)
(*   k = "str"    a Python str, v the sequence of its characters           *)
(*   k = "date"   a pandas Timestamp, v = [y, m, d, ns]                    *)
(*   k = "obj"    any other non-null object (a list, a dict, ...)          *)
(***************************************************************************)
EXTENDS Integers, Sequences, FiniteSets, TLC

VARIABLES
    \* ---- validate_table (rules.py) ----
    vpc,              \* position of the call: "idle", "rows", "done", "raised"
    table_name,       \* the table_name argument
    refs,             \* the refs argument: table name -> sequence of rows
    df,               \* the input dataframe: sequence of rows
    idx,              \* number of rows already processed (loop of line 47)
    unique_trackers,  \* column -> set of values seen by unique rules
    valid_data,       \* sequence of [idx, row] entries (row is row_copy)
    invalid_data,     \* sequence of [idx, row] entries
    \* ---- merge (merge.py) ----
    mpc,              \* position of merge(): the stage about to run
    history,          \* mode flag of the run
    mrefs,            \* refs map built by merge()
    files,            \* valid_/invalid_ files of the execution directory: name -> rows
    merged,           \* tables whose merged_<table>.csv was written
    stage_in,         \* the dataframe the most recent stage validated or deduplicated
    ret,              \* per stage: what the stage function returned
    started,          \* sequence of stage names in the order they were started
    loads,            \* per table: outcome of the warehouse load call
    facts,            \* what calculate_all_kpis returned
    result,           \* what merge() returned
    \* ---- runs started by the watcher (watcher.py, check.py) ----
    now,              \* wall clock, in minutes
    procs,            \* the check.py processes started: [mode, pc, exec_dir]
    written,          \* what was written: [dir, run, kind]
    \* ---- calculate_all_kpis on its own (transform.py) ----
    kpc,              \* position of the call: the fact table about to be computed
    kin,              \* the dataframes read from the four valid partitions
    kout,             \* the fact tables computed so far: name -> rows
    \* ---- macro_raw in historical mode, up to the validation (merge.py) ----
    qpc,              \* position of the call: "read", "filter", "validate", "done"
    qin,              \* start_date, end_date and the files of macro_data
    qout,             \* merged_df, or the return value None
    \* ---- the event handler of the watcher (watcher.py) ----
    events,           \* number of file events delivered so far
    handlers,         \* per handler thread: [pc, path] of its process_config call
    processing_files, \* StockConfigHandler.processing_files
    historical,       \* per config path: check.py --config processes still running
    \* ---- stocks_live of one day, run by several processes (check.py) ----
    collectors,       \* per process: [pc, records, after, outcome] of its stocks_live call
    stocks_csv        \* today's stocks.csv: [exists, writers]

vars == <<vpc, table_name, refs, df, idx, unique_trackers, valid_data, invalid_data,
          mpc, history, mrefs, files, merged, stage_in, ret, started, loads, facts, result,
          now, procs, written, kpc, kin, kout, qpc, qin, qout,
          events, handlers, processing_files, historical, collectors, stocks_csv>>

vvars == <<vpc, table_name, refs, df, idx, unique_trackers, valid_data, invalid_data>>

mvars == <<mpc, history, mrefs, files, merged, stage_in, ret, started, loads, facts, result>>

rvars == <<now, procs, written>>

kvars == <<kpc, kin, kout>>

qvars == <<qpc, qin, qout>>

wvars == <<events, handlers, processing_files, historical>>

lvars == <<collectors, stocks_csv>>

\* the variables of the models that stand on their own
xvars == <<kvars, qvars, wvars, lvars>>

\* all variables but those of one of these models
nonk == <<vvars, mvars, rvars, qvars, wvars, lvars>>

nonq == <<vvars, mvars, rvars, kvars, wvars, lvars>>

nonw == <<vvars, mvars, rvars, kvars, qvars, lvars>>

nonl == <<vvars, mvars, rvars, kvars, qvars, wvars>>

----------------------------------------------------------------------------
(* Bounds of the model *)

\* longest dataframe handed to validate_table
MaxRows == 2

\* longest merged dataframe of one merge stage
MaxStageRows == 2

\* most warehouse load calls that raise in one run of merge
MaxLoadFailures == 1

\* most check.py processes started by the watcher
MaxProcs == 2

\* most file events delivered to the handler of the watcher
MaxEvents == 3

\* last minute of the wall clock
MaxMinute == 2

----------------------------------------------------------------------------
(* Values *)

Null == [k |-> "null", v |-> 0]

I(n) == [k |-> "int", v |-> n]

F(t) == [k |-> "float", v |-> t]

S(s) == [k |-> "str", v |-> s]

D(y, m, d) == [k |-> "date", v |-> [y |-> y, m |-> m, d |-> d, ns |-> 0]]

Obj == [k |-> "obj", v |-> 0]

\* pd.notna / pd.isna
notna(val) == val.k # "null"

isna(val) == val.k = "null"

\* row.get(col): the cell, or None when the row has no such column
Get(row, col) == IF col \in DOMAIN row THEN row[col] ELSE Null

\* row_copy[col] = val
Put(row, col, val) == [c \in (DOMAIN row) \cup {col} |-> IF c = col THEN val ELSE row[c]]

----------------------------------------------------------------------------
(* Strings: sequences of one-character strings *)

DigitChars == {"0", "1", "2", "3", "4", "5", "6", "7", "8", "9"}

DigitVal(c) ==
    CASE c = "0" -> 0 [] c = "1" -> 1 [] c = "2" -> 2 [] c = "3" -> 3
      [] c = "4" -> 4 [] c = "5" -> 5 [] c = "6" -> 6 [] c = "7" -> 7
      [] c = "8" -> 8 [] c = "9" -> 9

DigitChar(n) ==
    CASE n = 0 -> "0" [] n = 1 -> "1" [] n = 2 -> "2" [] n = 3 -> "3"
      [] n = 4 -> "4" [] n = 5 -> "5" [] n = 6 -> "6" [] n = 7 -> "7"
      [] n = 8 -> "8" [] n = 9 -> "9"

\* characters str.strip() removes
IsSpace(c) == c \in {" ", "\t", "\n"}

\* str.upper / str.lower on one character (letters of the sample alphabet)
UpperChar(c) ==
    CASE c = "a" -> "A" [] c = "b" -> "B" [] c = "c" -> "C" [] c = "q" -> "Q"
      [] c = "n" -> "N" [] c = "x" -> "X" [] OTHER -> c

LowerChar(c) ==
    CASE c = "A" -> "a" [] c = "B" -> "b" [] c = "C" -> "c" [] c = "Q" -> "q"
      [] c = "N" -> "n" [] c = "X" -> "x" [] OTHER -> c

upper(s) == [i \in 1..Len(s) |-> UpperChar(s[i])]

lower(s) == [i \in 1..Len(s) |-> LowerChar(s[i])]

RECURSIVE lstrip(_)
lstrip(s) == IF Len(s) > 0 /\ IsSpace(s[1]) THEN lstrip(Tail(s)) ELSE s

RECURSIVE rstrip(_)
rstrip(s) ==
    IF Len(s) > 0 /\ IsSpace(s[Len(s)]) THEN rstrip(SubSeq(s, 1, Len(s) - 1)) ELSE s

strip(s) == rstrip(lstrip(s))

AllDigits(s) == \A i \in 1..Len(s) : s[i] \in DigitChars

\* int() of a sequence of digits
RECURSIVE NatOf(_)
NatOf(s) ==
    IF Len(s) = 0 THEN 0
    ELSE NatOf(SubSeq(s, 1, Len(s) - 1)) * 10 + DigitVal(s[Len(s)])

\* str() of a natural number
RECURSIVE NatStr(_)
NatStr(n) == IF n < 10 THEN <<DigitChar(n)>> ELSE NatStr(n \div 10) \o <<DigitChar(n % 10)>>

IntStr(n) == IF n < 0 THEN <<"-">> \o NatStr(0 - n) ELSE NatStr(n)

\* str() of a float held in tenths: 125 is "12.5", 120 is "12.0", -5 is "-0.5"
FloatStr(t) ==
    LET a == IF t < 0 THEN 0 - t ELSE t
    IN  (IF t < 0 THEN <<"-">> ELSE <<>>) \o NatStr(a \div 10) \o <<".">> \o <<DigitChar(a % 10)>>

Pad2(n) == IF n < 10 THEN <<"0">> \o NatStr(n) ELSE NatStr(n)

\* str() of a Timestamp at midnight: "YYYY-MM-DD 00:00:00"
DateStr(dv) ==
    NatStr(dv.y) \o <<"-">> \o Pad2(dv.m) \o <<"-">> \o Pad2(dv.d)
        \o <<" ", "0", "0", ":", "0", "0", ":", "0", "0">>

\* str(val)
Str(val) ==
    CASE val.k = "str" -> val.v
      [] val.k = "int" -> IntStr(val.v)
      [] val.k = "float" -> FloatStr(val.v)
      [] val.k = "date" -> DateStr(val.v)
      [] val.k = "null" -> <<"n", "a", "n">>
      [] OTHER -> <<"[", "]">>

\* re.fullmatch(r"-?\d+", s)
fullmatch_int(s) ==
    LET body == IF Len(s) > 0 /\ s[1] = "-" THEN Tail(s) ELSE s
    IN  Len(body) > 0 /\ AllDigits(body)

\* int(s) for a string accepted by fullmatch_int
int_of_str(s) == IF s[1] = "-" THEN 0 - NatOf(Tail(s)) ELSE NatOf(s)

----------------------------------------------------------------------------
(* Conversions used by the type coercions and by the numeric rules *)

\* the text float() accepts: optional sign, digits with at most one point
FloatSyntax(s) ==
    LET body == IF Len(s) > 0 /\ s[1] \in {"-", "+"} THEN Tail(s) ELSE s
        dots == {i \in 1..Len(body) : body[i] = "."}
    IN  /\ Cardinality(dots) <= 1
        /\ \A i \in 1..Len(body) : body[i] \in DigitChars \cup {"."}
        /\ \E i \in 1..Len(body) : body[i] \in DigitChars

\* float(s) in tenths (the sample strings carry at most one fractional digit)
FloatOfStr(s) ==
    LET neg == Len(s) > 0 /\ s[1] = "-"
        body == IF Len(s) > 0 /\ s[1] \in {"-", "+"} THEN Tail(s) ELSE s
        dots == {i \in 1..Len(body) : body[i] = "."}
        p == IF dots = {} THEN Len(body) + 1 ELSE CHOOSE i \in dots : TRUE
        ip == SubSeq(body, 1, p - 1)
        fp == SubSeq(body, p + 1, Len(body))
        mag == NatOf(ip) * 10 + (IF Len(fp) > 0 THEN DigitVal(fp[1]) ELSE 0)
    IN  IF neg THEN 0 - mag ELSE mag

\* does float(val) return (TRUE) or raise (FALSE)
CanFloat(val) ==
    CASE val.k = "int" -> TRUE
      [] val.k = "float" -> TRUE
      [] val.k = "str" -> FloatSyntax(strip(val.v))
      [] OTHER -> FALSE

\* float(val), in tenths
ToFloat(val) ==
    CASE val.k = "int" -> val.v * 10
      [] val.k = "float" -> val.v
      [] OTHER -> FloatOfStr(strip(val.v))

DaysIn(y, m) ==
    CASE m \in {4, 6, 9, 11} -> 30
      [] m = 2 -> IF (y % 4 = 0 /\ y % 100 # 0) \/ y % 400 = 0 THEN 29 ELSE 28
      [] OTHER -> 31

\* the date text the model's pd.to_datetime accepts: YYYY-MM-DD
IsoDateSyntax(s) ==
    /\ Len(s) = 10
    /\ s[5] = "-" /\ s[8] = "-"
    /\ \A i \in {1, 2, 3, 4, 6, 7, 9, 10} : s[i] \in DigitChars
    /\ LET y == NatOf(SubSeq(s, 1, 4))
           m == NatOf(SubSeq(s, 6, 7))
           d == NatOf(SubSeq(s, 9, 10))
       IN  m \in 1..12 /\ d \in 1..DaysIn(y, m)

\* does pd.to_datetime(val) return (TRUE) or raise (FALSE)
CanDate(val) ==
    CASE val.k = "date" -> TRUE
      [] val.k = "int" -> TRUE
      [] val.k = "float" -> TRUE
      [] val.k = "str" -> IsoDateSyntax(strip(val.v))
      [] OTHER -> FALSE

\* pd.to_datetime(val); a number is nanoseconds since the epoch
to_datetime(val) ==
    CASE val.k = "date" -> val
      [] val.k = "int" -> [k |-> "date", v |-> [y |-> 1970, m |-> 1, d |-> 1, ns |-> val.v]]
      [] val.k = "float" -> [k |-> "date", v |-> [y |-> 1970, m |-> 1, d |-> 1, ns |-> val.v \div 10]]
      [] OTHER -> LET s == strip(val.v)
                  IN  D(NatOf(SubSeq(s, 1, 4)), NatOf(SubSeq(s, 6, 7)), NatOf(SubSeq(s, 9, 10)))

\* re.match(pattern, s) for the patterns of the rule configuration;
\* "$" also matches just before one trailing newline
re_match(pattern, s) ==
    LET core == IF Len(s) > 0 /\ s[Len(s)] = "\n" THEN SubSeq(s, 1, Len(s) - 1) ELSE s
    IN  CASE pattern = "^[A-Z]+$" ->
               Len(core) > 0 /\ \A i \in 1..Len(core) : core[i] \in {"A", "B", "C", "N", "Q", "X"}
          [] pattern = "^\\d{4}-Q[1-4]$" ->
               /\ Len(core) = 7
               /\ \A i \in 1..4 : core[i] \in DigitChars
               /\ core[5] = "-" /\ core[6] = "Q" /\ core[7] \in {"1", "2", "3", "4"}
          [] OTHER -> FALSE

\* the value as a member of a Python set: 12 and 12.0 are the same member
SetKey(val) == IF val.k = "int" THEN F(val.v * 10) ELSE val

----------------------------------------------------------------------------
(* Rule configuration *)

\* a rule directive; a and b carry the arguments of a parameterised directive
R(op) == [op |-> op, a |-> "", b |-> ""]

Pattern(p) == [op |-> "pattern", a |-> p, b |-> ""]

InRange(lo, hi) == [op |-> "in_range", a |-> lo, b |-> hi]

Referential(t, c) == [op |-> "referential", a |-> t, b |-> c]

MatchCompany(t) == [op |-> "match_company_for_ticker", a |-> t, b |-> ""]

\* one column of a table schema: conf.get("type"), conf.get("rules", [])
Col(name, type, rs) == [col |-> name, type |-> type, rules |-> rs]

HasRule(conf, op) == \E j \in 1..Len(conf.rules) : conf.rules[j].op = op

----------------------------------------------------------------------------
(* validate_table: the work done on one column of one row *)

\* refs argument absent or empty ("if refs:" is false)
NoRefs == <<>>

\* ref_lookup of lines 36-44: column -> set of trimmed upper-cased reference values
RefLookupCols(rs, rf) ==
    {c \in {rs[i].col : i \in 1..Len(rs)} :
        \E i \in 1..Len(rs) : \E j \in 1..Len(rs[i].rules) :
            /\ rs[i].col = c
            /\ rs[i].rules[j].op = "referential"
            /\ rs[i].rules[j].a \in DOMAIN rf}

ref_lookup(rs, rf) ==
    [c \in RefLookupCols(rs, rf) |->
        LET i == CHOOSE i \in 1..Len(rs) : rs[i].col = c
            \* the last referential rule of the column wins the assignment
            j == CHOOSE j \in 1..Len(rs[i].rules) :
                    /\ rs[i].rules[j].op = "referential"
                    /\ rs[i].rules[j].a \in DOMAIN rf
                    /\ \A j2 \in 1..Len(rs[i].rules) :
                          (rs[i].rules[j2].op = "referential" /\ rs[i].rules[j2].a \in DOMAIN rf)
                              => j2 <= j
            rule == rs[i].rules[j]
            ref_df == rf[rule.a]
        IN  {upper(strip(Str(Get(ref_df[n], rule.b)))) : n \in 1..Len(ref_df)}]

\* unique_trackers of lines 29-34: a set for every column with a "unique" rule
InitTrackers(rs) ==
    [c \in {rs[i].col : i \in {n \in 1..Len(rs) : HasRule(rs[n], "unique")}} |-> {}]

\* unique_trackers.get(col, set())
TrackerGet(tr, col) == IF col \in DOMAIN tr THEN tr[col] ELSE {}

\* a faulty tracker: it holds the most recent value only
TrackerAdd_latest_only(tr, col, val) ==
    [c \in (DOMAIN tr) \cup {col} |-> IF c = col THEN {val} ELSE tr[c]]

\* unique_trackers[col].add(val) / unique_trackers.setdefault(col, set()).add(val)
TrackerAdd(tr, col, val) ==
    [c \in (DOMAIN tr) \cup {col} |->
        IF c = col THEN TrackerGet(tr, col) \cup {val} ELSE tr[c]]

\* ref_map of line 179: upper-cased trimmed ticker -> company, later rows win
RefCompany(ref_df, ticker_val) ==
    LET hits == {n \in 1..Len(ref_df) :
                    /\ Get(ref_df[n], "ticker").k = "str"
                    /\ upper(strip(Get(ref_df[n], "ticker").v)) = ticker_val}
    IN  IF hits = {} THEN Null
        ELSE Get(ref_df[CHOOSE n \in hits : \A n2 \in hits : n2 <= n], "company")

\* a faulty company check: no row is ever rejected
MatchCompanyRule_never(rule, row, rf) == "pass"

\* lines 173-184: "pass", "fail", or "raise" when expected is not a string
MatchCompanyRule(rule, row, rf) ==
    IF rule.a \notin DOMAIN rf THEN "pass"
    ELSE LET ticker_val == upper(strip(IF "ticker" \in DOMAIN row THEN Str(row["ticker"]) ELSE <<>>))
             company_val == strip(IF "company" \in DOMAIN row THEN Str(row["company"]) ELSE <<>>)
             hits == {n \in 1..Len(rf[rule.a]) :
                        /\ Get(rf[rule.a][n], "ticker").k = "str"
                        /\ upper(strip(Get(rf[rule.a][n], "ticker").v)) = ticker_val}
             expected == RefCompany(rf[rule.a], ticker_val)
         IN  CASE hits = {} -> "pass"
               [] expected.k = "str" ->
                    IF Len(expected.v) > 0 /\ lower(company_val) # lower(strip(expected.v))
                    THEN "fail" ELSE "pass"
               [] expected.k = "int" /\ expected.v = 0 -> "pass"
               [] expected.k = "float" /\ expected.v = 0 -> "pass"
               [] OTHER -> "raise"

\* one rule of the loop of lines 106-184 on the coerced value val:
\* res is "pass" (go on with the next rule), "fail" (valid=False; break)
\* or "raise" (an exception leaves validate_table); tr the trackers afterwards
RuleStep(rule, val, col, row, tr, rf, lookup) ==
    LET pass == [res |-> "pass", tr |-> tr]
        fail == [res |-> "fail", tr |-> tr]
        raise == [res |-> "raise", tr |-> tr]
    IN  CASE rule.op = "not_null" -> IF isna(val) THEN fail ELSE pass
          [] rule.op = "nullable" -> pass
          [] rule.op = "positive" ->
               IF isna(val) THEN pass
               ELSE IF ~CanFloat(val) THEN raise
               ELSE IF ToFloat(val) <= 0 THEN fail ELSE pass
          [] rule.op = "non_negative" ->
               IF isna(val) THEN pass
               ELSE IF ~CanFloat(val) THEN raise
               ELSE IF ToFloat(val) < 0 THEN fail ELSE pass
          [] rule.op = "unique" ->
               IF isna(val) THEN fail
               ELSE IF SetKey(val) \in tr[col] THEN fail
               ELSE [res |-> "pass", tr |-> TrackerAdd(tr, col, SetKey(val))]
          [] rule.op = "unique_trimmed" ->
               IF isna(val) THEN fail
               ELSE IF S(strip(Str(val))) \in TrackerGet(tr, col) THEN fail
               ELSE [res |-> "pass", tr |-> TrackerAdd(tr, col, S(strip(Str(val))))]
          [] rule.op = "iso_date" ->
               IF notna(val) /\ ~CanDate(val) THEN fail ELSE pass
          [] rule.op = "pattern" ->
               IF notna(val) /\ ~re_match(rule.a, Str(val)) THEN fail ELSE pass
          [] rule.op = "in_range" ->
               IF isna(val) THEN pass
               ELSE IF ~CanFloat(val) THEN raise
               ELSE IF ~(rule.a <= ToFloat(val) /\ ToFloat(val) <= rule.b) THEN fail ELSE pass
          [] rule.op = "referential" ->
               IF col \notin DOMAIN lookup THEN pass
               ELSE IF isna(val) THEN fail
               ELSE IF upper(strip(Str(val))) \notin lookup[col] THEN fail ELSE pass
          [] rule.op = "match_company_for_ticker" ->
               [res |-> MatchCompanyRule(rule, row, rf), tr |-> tr]
          [] OTHER -> pass

\* the rule loop of lines 106-184 from rule j on
RECURSIVE ApplyRules(_, _, _, _, _, _, _, _)
ApplyRules(col_rules, j, val, col, row, tr, rf, lookup) ==
    IF j > Len(col_rules) THEN [res |-> "pass", tr |-> tr]
    ELSE LET NextRule(out) ==
                 IF out.res = "pass"
                 THEN ApplyRules(col_rules, j + 1, val, col, row, out.tr, rf, lookup)
                 ELSE out
         IN  NextRule(RuleStep(col_rules[j], val, col, row, tr, rf, lookup))

\* a faulty integer branch: a float with a fractional part is truncated
IntegerCoercion_truncates(val) ==
    IF val.k \in {"int", "float"}
    THEN [ctl |-> "continue", ok |-> TRUE,
          val |-> I(IF val.k = "float" THEN val.v \div 10 ELSE val.v)]
    ELSE IF val.k = "str"
    THEN IF fullmatch_int(strip(val.v))
         THEN [ctl |-> "continue", ok |-> TRUE, val |-> I(int_of_str(strip(val.v)))]
         ELSE [ctl |-> "break", ok |-> FALSE, val |-> val]
    ELSE [ctl |-> "break", ok |-> FALSE, val |-> val]

\* integer branch of the type conversion, lines 71-96, on a non-null value:
\* ctl "continue" (next column, the rules of this column are skipped) with the
\* coerced integer, or ctl "break" (valid=False, the column loop is left)
IntegerCoercion(val) ==
    IF val.k \in {"int", "float"}
    THEN IF val.k = "float" /\ val.v % 10 # 0
         THEN [ctl |-> "break", ok |-> FALSE, val |-> val]
         ELSE [ctl |-> "continue", ok |-> TRUE,
               val |-> I(IF val.k = "float" THEN val.v \div 10 ELSE val.v)]
    ELSE IF val.k = "str"
    THEN IF fullmatch_int(strip(val.v))
         THEN [ctl |-> "continue", ok |-> TRUE, val |-> I(int_of_str(strip(val.v)))]
         ELSE [ctl |-> "break", ok |-> FALSE, val |-> val]
    ELSE [ctl |-> "break", ok |-> FALSE, val |-> val]

\* type conversion of lines 62-103 on a non-null value: ctl "rules" (go on to
\* the rules of the column), "continue" (next column) or "break" (leave the
\* column loop); ok FALSE when valid was set to False; val the value afterwards
TypeConversion(col_type, val) ==
    CASE col_type = "string" -> [ctl |-> "rules", ok |-> TRUE, val |-> S(Str(val))]
      [] col_type = "float" ->
           IF CanFloat(val) THEN [ctl |-> "rules", ok |-> TRUE, val |-> F(ToFloat(val))]
           ELSE [ctl |-> "continue", ok |-> FALSE, val |-> val]
      [] col_type = "integer" -> IntegerCoercion(val)
      [] col_type = "date" ->
           IF CanDate(val) THEN [ctl |-> "rules", ok |-> TRUE, val |-> to_datetime(val)]
           ELSE [ctl |-> "continue", ok |-> FALSE, val |-> val]
      [] OTHER -> [ctl |-> "rules", ok |-> TRUE, val |-> val]

\* body of the column loop, lines 52-184, for one column.
\* st = [valid, row_copy, tr, ctl]; ctl "run" go on with the next column,
\* "break" the column loop was left, "raise" an exception left validate_table
ProcessColumn(conf, row, st, rf, lookup) ==
    LET col == conf.col
        \* the state after the column: conv the outcome of the type conversion,
        \* copy the output row, out the outcome of the rule loop
        Finish(conv, copy, out) ==
            IF conv.ctl = "break"
            THEN [valid |-> FALSE, row_copy |-> copy, tr |-> st.tr, ctl |-> "break"]
            ELSE IF conv.ctl = "continue"
            THEN [valid |-> st.valid /\ conv.ok, row_copy |-> copy, tr |-> st.tr, ctl |-> "run"]
            ELSE [valid |-> st.valid /\ conv.ok /\ out.res = "pass", row_copy |-> copy,
                  tr |-> out.tr, ctl |-> IF out.res = "raise" THEN "raise" ELSE "run"]
        \* lines 106-184, reached when the type conversion neither continued
        \* nor left the column loop
        Rules(val, copy, conv) ==
            Finish(conv,
                   IF notna(val) /\ conv.ok /\ conf.type \in {"string", "float", "integer", "date"}
                   THEN Put(copy, col, conv.val) ELSE copy,
                   IF conv.ctl = "rules"
                   THEN ApplyRules(conf.rules, 1, conv.val, col, row, st.tr, rf, lookup)
                   ELSE [res |-> "pass", tr |-> st.tr])
        \* lines 62-103
        Convert(trim, val) ==
            Rules(val,
                  IF trim THEN Put(st.row_copy, col, val) ELSE st.row_copy,
                  IF notna(val) THEN TypeConversion(conf.type, val)
                  ELSE [ctl |-> "rules", ok |-> TRUE, val |-> val])
        \* lines 57-60
        Normalise(raw) ==
            Convert(HasRule(conf, "uppercase_trim") /\ notna(raw),
                    IF HasRule(conf, "uppercase_trim") /\ notna(raw)
                    THEN S(upper(strip(Str(raw)))) ELSE raw)
    IN  Normalise(Get(row, col))

\* the column loop of lines 52-184 from column i on
RECURSIVE ProcessColumns(_, _, _, _, _, _)
ProcessColumns(rs, i, row, st, rf, lookup) ==
    IF i > Len(rs) \/ st.ctl # "run" THEN st
    ELSE ProcessColumns(rs, i + 1, row, ProcessColumn(rs[i], row, st, rf, lookup), rf, lookup)

\* a faulty row check: the row starts with valid=False
ProcessRow_startsInvalid(rs, row, tr, rf) ==
    ProcessColumns(rs, 1, row, [valid |-> FALSE, row_copy |-> row, tr |-> tr, ctl |-> "run"],
                   rf, ref_lookup(rs, rf))

\* lines 47-184 for one row: valid=True, row_copy=row.copy(), then the columns
ProcessRow(rs, row, tr, rf) ==
    ProcessColumns(rs, 1, row, [valid |-> TRUE, row_copy |-> row, tr |-> tr, ctl |-> "run"],
                   rf, ref_lookup(rs, rf))

----------------------------------------------------------------------------
(* The rule configuration (config.json, "tables") and the sample data *)

\* the five pipeline tables, and four small tables that put the directives
\* and the four column types in other combinations
tables_config ==
    [stocks_raw |-> <<
        Col("ticker", "string", <<R("uppercase_trim"), R("not_null")>>),
        Col("company", "string", <<R("not_null")>>),
        Col("date", "date", <<R("not_null"), R("iso_date")>>),
        Col("close", "float", <<R("not_null"), R("positive")>>),
        Col("volume", "integer", <<R("not_null"), R("non_negative")>>) >>,
     company_metadata |-> <<
        Col("rank", "integer", <<R("not_null"), R("unique")>>),
        Col("company", "string", <<R("not_null"), MatchCompany("stocks_raw")>>),
        Col("industry", "string", <<R("nullable")>>),
        Col("ticker", "string", <<R("uppercase_trim"), R("not_null"),
                                  Referential("stocks_raw", "ticker")>>) >>,
     exchange_rates |-> <<
        Col("date", "date", <<R("not_null"), R("iso_date")>>),
        Col("usd_inr_rate", "float", <<R("not_null"), R("positive")>>) >>,
     macro_raw |-> <<
        Col("quarter", "string", <<R("not_null"), Pattern("^\\d{4}-Q[1-4]$")>>),
        Col("year", "integer", <<R("nullable")>>),
        Col("GDP", "float", <<R("nullable"), R("non_negative")>>) >>,
     sentiment |-> <<
        Col("ticker", "string", <<R("uppercase_trim"), R("not_null"),
                                  Referential("stocks_raw", "ticker")>>),
        Col("date", "date", <<R("not_null"), R("iso_date")>>),
        Col("sentiment_score", "float", <<R("nullable"), InRange(-10, 10)>>) >>,
     quantities |-> <<
        Col("qty", "integer", <<R("nullable")>>),
        Col("code", "string", <<R("uppercase_trim"), R("unique_trimmed")>>) >>,
     ledger |-> <<
        Col("account", "string", <<R("not_null"), R("unique")>>),
        Col("units", "integer", <<R("not_null")>>),
        Col("label", "string", <<R("uppercase_trim"), R("not_null"), Pattern("^[A-Z]+$")>>) >>,
     readings |-> <<
        Col("level", "string", <<R("not_null"), R("positive")>>),
        Col("tag", "", <<R("unique")>>) >>,
     holdings |-> <<
        Col("lot", "integer", <<R("not_null"), Referential("lots", "id")>>),
        Col("owner", "string", <<R("uppercase_trim"), Referential("stocks_raw", "ticker")>>) >>,
     gauges |-> <<
        Col("level", "string", <<R("not_null"), R("positive")>>) >>]

\* table names handed to validate_table; "unknown" has no schema
TableNames == (DOMAIN tables_config) \cup {"unknown"}

s_ab == <<"a", "b">>

s_sp_ab == <<" ", "a", "b">>

s_AB == <<"A", "B">>

s_X == <<"X">>

s_Abc == <<"A", "b", "c">>

s_Xc == <<"X", "c">>

s_xc == <<"x", "c">>

s_d1 == <<"2", "0", "2", "4", "-", "0", "1", "-", "0", "2">>

s_d2 == <<"2", "0", "2", "4", "-", "0", "4", "-", "0", "3">>

s_q1 == <<"2", "0", "2", "4", "-", "Q", "1">>

s_Q1 == <<"Q", "1">>

s_12 == <<"1", "2">>

s_sp_12 == <<" ", "1", "2", " ">>

s_12p5 == <<"1", "2", ".", "5">>

s_m3 == <<"-", "3">>

s_1 == <<"1">>

\* sample rows of a table: every combination of the sample cells of its columns
SampleRows(t) ==
    CASE t = "stocks_raw" ->
           {[ticker |-> a, company |-> S(s_Abc), date |-> b, close |-> c, volume |-> d] :
               a \in {S(s_sp_ab), S(s_X)}, b \in {S(s_d1), S(s_d2)},
               c \in {F(1000), S(s_ab)}, d \in {I(5), I(-5), S(s_12p5)}}
      [] t = "company_metadata" ->
           {[rank |-> a, company |-> b, industry |-> S(s_AB), ticker |-> c] :
               a \in {I(1), S(s_1), F(15)}, b \in {S(s_Abc), S(s_Xc)},
               c \in {S(s_ab), S(s_X)}}
      [] t = "exchange_rates" ->
           {[date |-> a, usd_inr_rate |-> b] :
               a \in {S(s_d1), S(s_d2), Null}, b \in {F(830), F(-10), S(s_ab)}}
      [] t = "macro_raw" ->
           {[quarter |-> a, year |-> y, GDP |-> b] :
               a \in {S(s_q1), S(s_Q1), Null}, y \in {S(s_12), Null},
               b \in {F(250), F(-1), Null}}
      [] t = "sentiment" ->
           {[ticker |-> a, date |-> b, sentiment_score |-> c] :
               a \in {S(s_sp_ab), S(s_X)}, b \in {S(s_d1), S(s_ab)}, c \in {F(5), F(20), Null}}
      [] t = "quantities" ->
           {[qty |-> a, code |-> b] :
               a \in {I(7), F(120), F(125), S(s_12), S(s_sp_12), S(s_12p5), S(s_m3), Obj, Null},
               b \in {S(s_ab), S(s_sp_ab)}}
      [] t = "ledger" ->
           {[account |-> a, units |-> b, label |-> c] :
               a \in {S(s_X), S(s_AB)}, b \in {I(3), S(s_12p5), Null}, c \in {S(s_ab), S(s_12)}}
      [] t = "readings" ->
           {[level |-> a, tag |-> b] :
               a \in {S(s_12), S(s_m3), S(s_ab)}, b \in {I(12), F(120), S(s_12)}}
      [] t = "holdings" ->
           {[lot |-> a, owner |-> b] : a \in {I(1), I(7), S(s_1)}, b \in {S(s_sp_ab), S(s_Xc)}}
      [] t = "gauges" ->
           {[level |-> a] : a \in {S(s_12), S(s_m3), S(s_ab), Null}}
      [] OTHER -> {[ticker |-> S(s_X)]}

\* sample values of the refs argument for a table
SampleRefs(t) ==
    IF t \in {"company_metadata", "sentiment", "unknown"}
    THEN {NoRefs,
          [stocks_raw |-> <<[ticker |-> S(s_AB), company |-> S(s_Abc)]>>],
          [stocks_raw |-> <<[ticker |-> S(s_AB), company |-> S(s_Abc)],
                            [ticker |-> S(s_X), company |-> S(s_xc)]>>]}
    ELSE IF t = "holdings"
    THEN {NoRefs,
          [lots |-> <<[id |-> I(1)]>>],
          [lots |-> <<[id |-> I(1)]>>, stocks_raw |-> <<[ticker |-> S(s_sp_ab)]>>]}
    ELSE {NoRefs}

\* all sequences over Rows of length 0..n
SeqsUpTo(Rows, n) == UNION {[1..k -> Rows] : k \in 0..n}

----------------------------------------------------------------------------
(* validate_table as a state machine: one step per row of df *)

rules == tables_config[table_name]

\* the watcher has started no process
RunsIdle ==
    /\ now = 0
    /\ procs = <<>>
    /\ written = {}

\* no call of calculate_all_kpis on its own
KpiIdle ==
    /\ kpc = "off"
    /\ kin = <<>>
    /\ kout = <<>>

\* no call of macro_raw on its own
MacroRawIdle ==
    /\ qpc = "off"
    /\ qin = <<>>
    /\ qout = <<>>

\* no watcher
WatcherIdle ==
    /\ events = 0
    /\ handlers = <<>>
    /\ processing_files = {}
    /\ historical = <<>>

\* no live collection
LiveIdle ==
    /\ collectors = <<>>
    /\ stocks_csv = [exists |-> FALSE, writers |-> <<>>]

\* the models that stand on their own are not running
ExtrasIdle == KpiIdle /\ MacroRawIdle /\ WatcherIdle /\ LiveIdle

\* calculate_all_kpis has not returned fact tables: ok whether it returned a
\* dict, tables the keys of the dict, and the rows of the two modelled tables
NoFacts == [ok |-> FALSE, tables |-> {}, stock_facts |-> <<>>, analytics_summary |-> <<>>]

MergeIdle ==
    /\ mpc = "off"
    /\ history = FALSE
    /\ mrefs = NoRefs
    /\ files = <<>>
    /\ merged = {}
    /\ stage_in = [table |-> "", df |-> <<>>]
    /\ ret = <<>>
    /\ started = <<>>
    /\ loads = <<>>
    /\ facts = NoFacts
    /\ result = "off"

\* a call validate_table(df, table_name, refs) is about to start
InitValidate ==
    /\ vpc = "start"
    /\ table_name \in TableNames
    /\ refs \in SampleRefs(table_name)
    /\ df \in SeqsUpTo(SampleRows(table_name), MaxRows)
    /\ idx = 0
    /\ unique_trackers = <<>>
    /\ valid_data = <<>>
    /\ invalid_data = <<>>
    /\ MergeIdle
    /\ RunsIdle
    /\ ExtrasIdle

\* a faulty configuration check: the call returns two empty partitions
VConfigError_returns ==
    /\ vpc = "start"
    /\ table_name \notin DOMAIN tables_config
    /\ vpc' = "done"
    /\ UNCHANGED <<table_name, refs, df, idx, unique_trackers, valid_data, invalid_data>>
    /\ UNCHANGED <<mvars, rvars, xvars>>

\* lines 23-24: no schema for the table
VConfigError ==
    /\ vpc = "start"
    /\ table_name \notin DOMAIN tables_config
    /\ vpc' = "raised"
    /\ UNCHANGED <<table_name, refs, df, idx, unique_trackers, valid_data, invalid_data>>
    /\ UNCHANGED <<mvars, rvars, xvars>>

\* lines 26-44: the trackers and the referential lookup sets
VSetup ==
    /\ vpc = "start"
    /\ table_name \in DOMAIN tables_config
    /\ vpc' = "rows"
    /\ unique_trackers' = InitTrackers(rules)
    /\ UNCHANGED <<table_name, refs, df, idx, valid_data, invalid_data>>
    /\ UNCHANGED <<mvars, rvars, xvars>>

\* a faulty routing: a valid row is appended to both lists
RouteRow_both(parts, valid, entry) ==
    IF valid THEN <<Append(parts[1], entry), Append(parts[2], entry)>>
    ELSE <<parts[1], Append(parts[2], entry)>>

\* lines 186-190: the row goes to valid_data or to invalid_data
\* parts = <<valid_data, invalid_data>>
RouteRow(parts, valid, entry) ==
    IF valid THEN <<Append(parts[1], entry), parts[2]>>
    ELSE <<parts[1], Append(parts[2], entry)>>

\* lines 47-190 for row idx: checked, then appended to one of the two lists
VRow ==
    /\ vpc = "rows"
    /\ idx < Len(df)
    /\ \E st \in {ProcessRow(rules, df[idx + 1], unique_trackers, refs)} :
          \E parts \in {RouteRow(<<valid_data, invalid_data>>, st.valid,
                                 [idx |-> idx, row |-> st.row_copy])} :
              /\ st.ctl # "raise"
              /\ unique_trackers' = st.tr
              /\ valid_data' = parts[1]
              /\ invalid_data' = parts[2]
    /\ idx' = idx + 1
    /\ UNCHANGED <<vpc, table_name, refs, df>>
    /\ UNCHANGED <<mvars, rvars, xvars>>

\* a rule of row idx raises (float() of a non-numeric value, line 115, 120 or
\* 162; a non-string expected company, line 181): the call ends without result
VRowRaise ==
    /\ vpc = "rows"
    /\ idx < Len(df)
    /\ ProcessRow(rules, df[idx + 1], unique_trackers, refs).ctl = "raise"
    /\ vpc' = "raised"
    /\ UNCHANGED <<table_name, refs, df, idx, unique_trackers, valid_data, invalid_data>>
    /\ UNCHANGED <<mvars, rvars, xvars>>

\* lines 192-193: both partitions are returned
VReturn ==
    /\ vpc = "rows"
    /\ idx = Len(df)
    /\ vpc' = "done"
    /\ UNCHANGED <<table_name, refs, df, idx, unique_trackers, valid_data, invalid_data>>
    /\ UNCHANGED <<mvars, rvars, xvars>>

NextValidate == VConfigError \/ VSetup \/ VRow \/ VRowRaise \/ VReturn

SpecValidate == InitValidate /\ [][NextValidate]_vars

----------------------------------------------------------------------------
(* Vocabulary of the properties of validate_table *)

ValidIdx == {valid_data[n].idx : n \in 1..Len(valid_data)}

InvalidIdx == {invalid_data[n].idx : n \in 1..Len(invalid_data)}

\* the output entries of both partitions
OutEntries ==
    {valid_data[n] : n \in 1..Len(valid_data)} \cup {invalid_data[n] : n \in 1..Len(invalid_data)}

\* the input row of an output entry
InRow(e) == df[e.idx + 1]

\* the cell as the type conversion sees it: after uppercase_trim
Trimmed(conf, raw) ==
    IF HasRule(conf, "uppercase_trim") /\ notna(raw) THEN S(upper(strip(Str(raw)))) ELSE raw

\* the type coercion of the cell fails
CoercionFails(conf, raw) ==
    notna(Trimmed(conf, raw)) /\ ~TypeConversion(conf.type, Trimmed(conf, raw)).ok

\* the cell after normalisation and (successful) type coercion
Coerced(conf, raw) ==
    IF notna(Trimmed(conf, raw)) /\ TypeConversion(conf.type, Trimmed(conf, raw)).ok
    THEN TypeConversion(conf.type, Trimmed(conf, raw)).val
    ELSE Trimmed(conf, raw)

\* a value-only rule is violated by the coerced value val
RuleViolated(rule, val) ==
    CASE rule.op = "not_null" -> isna(val)
      [] rule.op = "positive" -> notna(val) /\ CanFloat(val) /\ ToFloat(val) <= 0
      [] rule.op = "non_negative" -> notna(val) /\ CanFloat(val) /\ ToFloat(val) < 0
      [] rule.op = "in_range" ->
           notna(val) /\ CanFloat(val) /\ ~(rule.a <= ToFloat(val) /\ ToFloat(val) <= rule.b)
      [] rule.op = "iso_date" -> notna(val) /\ ~CanDate(val)
      [] rule.op = "pattern" -> notna(val) /\ ~re_match(rule.a, Str(val))
      [] OTHER -> FALSE

\* the value a uniqueness rule of the column compares, for a coerced value
UniqueKey(rule, val) == IF rule.op = "unique" THEN SetKey(val) ELSE S(strip(Str(val)))

\* rule j of column conf fails on row i of the input (0-based): a value-only
\* rule by its value, a uniqueness rule by a null or by an earlier row with the
\* same value, a reference rule by the reference data
RuleFailsOn(conf, j, i) ==
    LET rule == conf.rules[j]
        row == df[i + 1]
        val == Coerced(conf, Get(row, conf.col))
    IN  CASE rule.op \in {"unique", "unique_trimmed"} ->
               \/ isna(val)
               \/ \E i2 \in 0..(i - 1) :
                     LET val2 == Coerced(conf, Get(df[i2 + 1], conf.col))
                     IN  notna(val2) /\ UniqueKey(rule, val2) = UniqueKey(rule, val)
          [] rule.op = "referential" ->
               /\ conf.col \in DOMAIN ref_lookup(rules, refs)
               /\ (isna(val) \/ upper(strip(Str(val))) \notin ref_lookup(rules, refs)[conf.col])
          [] rule.op = "match_company_for_ticker" -> MatchCompanyRule(rule, row, refs) = "fail"
          [] OTHER -> RuleViolated(rule, val)

\* some type coercion or some declared rule fails on column conf of row i
ColumnFails(conf, i) ==
    \/ CoercionFails(conf, Get(df[i + 1], conf.col))
    \/ \E j \in 1..Len(conf.rules) : RuleFailsOn(conf, j, i)

\* some type coercion or some declared rule fails on row i
RowFails(i) == \E c \in 1..Len(rules) : ColumnFails(rules[c], i)

Done == vpc = "done"

----------------------------------------------------------------------------
(* C1 *)

\* C1: after validate_table, every row of the valid partition satisfies every
\* rule declared for every configured column, evaluated on the coerced value,
\* whatever the column type; a negative value in a non_negative column is
\* never valid.
Claim_C1_ValidRowsSatisfyAllRules ==
    Done =>
        \A n \in 1..Len(valid_data) : \A c \in 1..Len(rules) :
            \A j \in 1..Len(rules[c].rules) :
                ~RuleViolated(rules[c].rules[j], Get(valid_data[n].row, rules[c].col))

\* the same statement for the columns that are not of type integer
C1_NonIntegerColumnsSatisfyRules ==
    Done =>
        \A n \in 1..Len(valid_data) : \A c \in 1..Len(rules) :
            \A j \in 1..Len(rules[c].rules) :
                rules[c].type # "integer" =>
                    ~RuleViolated(rules[c].rules[j], Get(valid_data[n].row, rules[c].col))

----------------------------------------------------------------------------
(* C5 *)

\* exactly one entry of the two partitions carries input row i
RoutedOnce(i) ==
    Cardinality({n \in 1..Len(valid_data) : valid_data[n].idx = i})
        + Cardinality({n \in 1..Len(invalid_data) : invalid_data[n].idx = i}) = 1

\* C5: every input row is routed to exactly one of the two partitions, none is
\* dropped or duplicated: after each row processed so far, and at the return,
\* the partitions hold each row once and valid + invalid = number of rows.
Thm_C5_RowsPartitioned ==
    /\ vpc \in {"rows", "done"} =>
          /\ \A i \in 0..(idx - 1) : RoutedOnce(i)
          /\ Len(valid_data) + Len(invalid_data) = idx
          /\ ValidIdx \cup InvalidIdx = 0..(idx - 1)
    /\ Done => Len(valid_data) + Len(invalid_data) = Len(df)

Wit_C5_BothPartitionsFilled ==
    Done /\ Len(valid_data) >= 1 /\ Len(invalid_data) >= 1 /\ Len(df) = MaxRows

----------------------------------------------------------------------------
(* C6 *)

\* C6: a row is in the invalid partition only if some type coercion or some
\* declared rule failed on one of its configured columns; a row on which all
\* coercions and rules pass is in the valid partition.
Thm_C6_NoFalseInvalidation ==
    vpc \in {"rows", "done"} =>
        /\ \A i \in InvalidIdx : RowFails(i)
        /\ \A i \in 0..(idx - 1) : ~RowFails(i) => i \in ValidIdx

Wit_C6_CleanRowAfterFailedRow ==
    Done /\ Len(df) = 2 /\ 0 \in InvalidIdx /\ 1 \in ValidIdx /\ ~RowFails(1)

----------------------------------------------------------------------------
(* C8 *)

\* rows a and b (0-based) carry the same non-null value under uniqueness rule j
\* of column conf
SameUniqueValue(conf, j, a, b) ==
    LET va == Coerced(conf, Get(df[a + 1], conf.col))
        vb == Coerced(conf, Get(df[b + 1], conf.col))
    IN  notna(va) /\ notna(vb) /\ UniqueKey(conf.rules[j], va) = UniqueKey(conf.rules[j], vb)

\* row a fails nothing but, possibly, uniqueness rules
OnlyUniquenessCanFail(a) ==
    \A c \in 1..Len(rules) :
        /\ ~CoercionFails(rules[c], Get(df[a + 1], rules[c].col))
        /\ \A j \in 1..Len(rules[c].rules) :
              rules[c].rules[j].op \notin {"unique", "unique_trimmed"} => ~RuleFailsOn(rules[c], j, a)

\* C8: for a column with a unique or unique_trimmed rule, of two rows A then B
\* with the same value the later one, B, is invalid; the first occurrence of a
\* value is valid whenever it passes its other checks.
Claim_C8_LaterDuplicateIsInvalid ==
    Done =>
        \A c \in 1..Len(rules) : \A j \in 1..Len(rules[c].rules) :
            rules[c].rules[j].op \in {"unique", "unique_trimmed"} =>
                \A a \in 0..(Len(df) - 1) : \A b \in 0..(Len(df) - 1) :
                    (a < b /\ SameUniqueValue(rules[c], j, a, b)) =>
                        /\ b \in InvalidIdx
                        /\ (a = 0 /\ OnlyUniquenessCanFail(a)) => a \in ValidIdx

\* the same statement for uniqueness rules on columns that are not of type
\* integer, when no integer coercion fails on the earlier row
C8_HoldsWithoutIntegerColumns ==
    Done =>
        \A c \in 1..Len(rules) : \A j \in 1..Len(rules[c].rules) :
            (rules[c].rules[j].op \in {"unique", "unique_trimmed"} /\ rules[c].type # "integer") =>
                \A a \in 0..(Len(df) - 1) : \A b \in 0..(Len(df) - 1) :
                    (/\ a < b
                     /\ SameUniqueValue(rules[c], j, a, b)
                     /\ \A c2 \in 1..Len(rules) :
                           rules[c2].type = "integer" =>
                               ~CoercionFails(rules[c2], Get(df[a + 1], rules[c2].col))) =>
                        /\ b \in InvalidIdx
                        /\ (a = 0 /\ OnlyUniquenessCanFail(a)) => a \in ValidIdx

----------------------------------------------------------------------------
(* C9 *)

\* C9: a failure on one column of a row (a failing rule or a failed coercion
\* of any type) stops only the remaining rules of that column: every other
\* configured column of the row is still coerced, so its coerced value is in
\* the output row.
Claim_C9_OtherColumnsStillProcessed ==
    Done =>
        \A e \in OutEntries : \A c \in 1..Len(rules) :
            Get(e.row, rules[c].col) = Coerced(rules[c], Get(InRow(e), rules[c].col))

\* the same statement for the rows on which no integer coercion fails
C9_HoldsWithoutIntegerFailure ==
    Done =>
        \A e \in OutEntries :
            (\A c2 \in 1..Len(rules) :
                rules[c2].type = "integer" => ~CoercionFails(rules[c2], Get(InRow(e), rules[c2].col)))
            => \A c \in 1..Len(rules) :
                  Get(e.row, rules[c].col) = Coerced(rules[c], Get(InRow(e), rules[c].col))

----------------------------------------------------------------------------
(* C10 *)

\* a number without fractional part
WholeNumber(val) == val.k = "int" \/ (val.k = "float" /\ val.v % 10 = 0)

WholeNumberValue(val) == IF val.k = "int" THEN val.v ELSE val.v \div 10

\* the integer columns that every row reaches: no integer column before them
ReachedIntegerColumns ==
    {c \in 1..Len(rules) :
        rules[c].type = "integer" /\ \A c2 \in 1..(c - 1) : rules[c2].type # "integer"}

\* some column other than c fails on row i
OtherColumnFails(c, i) == \E c2 \in (1..Len(rules)) \ {c} : ColumnFails(rules[c2], i)

\* the text of a string that is matched against the integer pattern: the
\* string as written, or the string without its surrounding whitespace
MatchedText(stripped, s) == IF stripped THEN strip(s) ELSE s

\* the contract of the integer coercion, for the two notions of the text that
\* is matched against the integer pattern
IntegerContract(stripped) ==
    Done =>
        \A e \in OutEntries : \A c \in ReachedIntegerColumns :
            LET val == Trimmed(rules[c], Get(InRow(e), rules[c].col))
                accepted == \/ WholeNumber(val)
                            \/ (val.k = "str" /\ fullmatch_int(MatchedText(stripped, val.v)))
                number == IF val.k = "str" THEN int_of_str(MatchedText(stripped, val.v)) ELSE WholeNumberValue(val)
            IN  notna(val) =>
                    /\ accepted =>
                          /\ Get(e.row, rules[c].col) = I(number)
                          /\ e.idx \in ValidIdx \/ OtherColumnFails(c, e.idx)
                    /\ ~accepted => e.idx \in InvalidIdx

\* C10 as stated: a number is accepted iff it has no fractional part, a string
\* iff it fully matches an optional minus sign followed by digits; accepted
\* values yield the integer, every other non-null value invalidates the row.
Claim_C10_StringMustMatchAsWritten == IntegerContract(FALSE)

\* C10 amended: a string is accepted iff it matches the integer pattern after
\* its leading and trailing whitespace is removed.
Thm_C10_IntegerCoercion == IntegerContract(TRUE)

\* the four cases of the specification and the padded string, in one table
Wit_C10_IntegerCases ==
    /\ Done
    /\ table_name = "quantities"
    /\ Len(df) = 2
    /\ df[1].qty = S(s_sp_12) /\ 0 \in ValidIdx /\ valid_data[1].row.qty = I(12)
    /\ df[2].qty = S(s_12p5) /\ 1 \in InvalidIdx

----------------------------------------------------------------------------
(* validate_table as a function, as the merge stages call it *)

\* a faulty row loop: valid is set once before the loop, so a failed row
\* invalidates the rows after it
RECURSIVE ValidateRows_stickyInvalid(_, _, _, _, _, _)
ValidateRows_stickyInvalid(rs, d, i, tr, parts, rf) ==
    IF i > Len(d) THEN [raised |-> FALSE, valid |-> parts[1], invalid |-> parts[2]]
    ELSE LET Route(st) ==
                 IF st.ctl = "raise" THEN [raised |-> TRUE, valid |-> <<>>, invalid |-> <<>>]
                 ELSE ValidateRows_stickyInvalid(rs, d, i + 1, st.tr,
                                   RouteRow(parts, st.valid /\ Len(parts[2]) = 0,
                                            [idx |-> i - 1, row |-> st.row_copy]),
                                   rf)
         IN  Route(ProcessRow(rs, d[i], tr, rf))

\* the row loop of lines 47-190 from row i (1-based) on
RECURSIVE ValidateRows(_, _, _, _, _, _)
ValidateRows(rs, d, i, tr, parts, rf) ==
    IF i > Len(d) THEN [raised |-> FALSE, valid |-> parts[1], invalid |-> parts[2]]
    ELSE LET Route(st) ==
                 IF st.ctl = "raise" THEN [raised |-> TRUE, valid |-> <<>>, invalid |-> <<>>]
                 ELSE ValidateRows(rs, d, i + 1, st.tr,
                                   RouteRow(parts, st.valid, [idx |-> i - 1, row |-> st.row_copy]),
                                   rf)
         IN  Route(ProcessRow(rs, d[i], tr, rf))

validate_table(d, t, rf) ==
    IF t \notin DOMAIN tables_config THEN [raised |-> TRUE, valid |-> <<>>, invalid |-> <<>>]
    ELSE ValidateRows(tables_config[t], d, 1, InitTrackers(tables_config[t]), <<<<>>, <<>>>>, rf)

\* the state machine and the function are the same computation
StepwiseAgreesWithFunction ==
    /\ Done => /\ ~validate_table(df, table_name, refs).raised
               /\ valid_data = validate_table(df, table_name, refs).valid
               /\ invalid_data = validate_table(df, table_name, refs).invalid
    /\ vpc = "raised" => validate_table(df, table_name, refs).raised

----------------------------------------------------------------------------
(* drop_duplicates(subset=..., keep='last') *)

\* the values of the key columns of a row, as pandas compares them
KeyOf(row, subset) == [n \in 1..Len(subset) |-> SetKey(Get(row, subset[n]))]

\* the subsequence of s at the positions in keep, in order
RECURSIVE SelectSeq2(_, _, _)
SelectSeq2(s, keep, n) ==
    IF n > Len(s) THEN <<>>
    ELSE (IF n \in keep THEN <<s[n]>> ELSE <<>>) \o SelectSeq2(s, keep, n + 1)

\* drop_duplicates with keep='first'
drop_duplicates_keep_first(rows, subset) ==
    SelectSeq2(rows,
               {n \in 1..Len(rows) :
                   ~\E m \in 1..(n - 1) : KeyOf(rows[m], subset) = KeyOf(rows[n], subset)},
               1)

\* a faulty keep-last: the frame is reversed, deduplicated keeping the first
\* occurrence, and not reversed back
drop_duplicates_reversed(rows, subset) ==
    LET Rev(s) == [n \in 1..Len(s) |-> s[Len(s) + 1 - n]]
    IN  Rev(SelectSeq2(rows,
                       {n \in 1..Len(rows) :
                           ~\E m \in (n + 1)..Len(rows) : KeyOf(rows[m], subset) = KeyOf(rows[n], subset)},
                       1))

\* drop_duplicates on a sequence of rows: a row stays iff no later row has its key
drop_duplicates(rows, subset) ==
    SelectSeq2(rows,
               {n \in 1..Len(rows) :
                   ~\E m \in (n + 1)..Len(rows) : KeyOf(rows[m], subset) = KeyOf(rows[n], subset)},
               1)

\* the rows of a partition returned by validate_table
RowsOf(entries) == [n \in 1..Len(entries) |-> entries[n].row]

\* the entity key of each table (subset= of the stage's drop_duplicates)
EntityKey(t) ==
    CASE t \in {"stocks_raw", "sentiment"} -> <<"ticker", "date">>
      [] t = "company_metadata" -> <<"rank">>
      [] t = "exchange_rates" -> <<"date">>
      [] t = "macro_raw" -> <<"quarter">>
      [] OTHER -> <<"ticker", "year", "quarter">>

----------------------------------------------------------------------------
(* merge: the table stages *)

\* the year of the run (date.today().year, and the year of the source files)
ThisYear == 2024

\* sample contents of the source files of each table, in file order
StageSamples(t) ==
    CASE t = "stocks_raw" ->
           {<<[ticker |-> S(s_sp_ab), company |-> S(s_Abc), date |-> S(s_d1), close |-> F(1000), volume |-> I(5)],
              [ticker |-> S(s_AB), company |-> S(s_Abc), date |-> S(s_d1), close |-> F(1100), volume |-> I(5)],
              [ticker |-> S(s_X), company |-> S(s_Xc), date |-> S(s_d2), close |-> F(1000), volume |-> I(5)]>>,
            <<[ticker |-> S(s_X), company |-> S(s_Xc), date |-> S(s_d1), close |-> S(s_ab), volume |-> I(5)],
              [ticker |-> S(s_X), company |-> S(s_Xc), date |-> S(s_d2), close |-> F(1000), volume |-> I(5)]>>,
            <<[ticker |-> S(s_AB), company |-> S(s_Abc), date |-> S(s_d1), close |-> F(1100), volume |-> I(5)],
              [ticker |-> S(s_X), company |-> S(s_Abc), date |-> S(s_d1), close |-> S(s_ab), volume |-> I(5)]>>}
      [] t = "company_metadata" ->
           {<<[rank |-> I(1), company |-> S(s_Abc), industry |-> S(s_AB), ticker |-> S(s_ab)],
              [rank |-> I(2), company |-> S(s_Abc), industry |-> S(s_X), ticker |-> S(s_ab)],
              [rank |-> I(3), company |-> S(s_Xc), industry |-> S(s_X), ticker |-> S(s_X)]>>,
            <<[rank |-> I(1), company |-> S(s_Abc), industry |-> S(s_AB), ticker |-> S(s_ab)],
              [rank |-> I(1), company |-> S(s_Abc), industry |-> S(s_X), ticker |-> S(s_ab)]>>,
            <<[rank |-> I(1), company |-> S(s_Abc), industry |-> S(s_X), ticker |-> S(s_X)],
              [rank |-> I(2), company |-> S(s_Abc), industry |-> S(s_AB), ticker |-> S(s_ab)]>>}
      [] t = "exchange_rates" ->
           {<<[date |-> S(s_d1), usd_inr_rate |-> F(830)],
              [date |-> S(s_d1), usd_inr_rate |-> F(-10)],
              [date |-> S(s_d1), usd_inr_rate |-> F(840)]>>}
      [] t = "macro_raw" ->
           {<<[quarter |-> S(s_Q1), GDP |-> F(250)],
              [quarter |-> S(s_Q1), GDP |-> F(300)]>>}
      [] OTHER ->
           {<<[ticker |-> S(s_sp_ab), date |-> S(s_d1), sentiment_score |-> F(5)],
              [ticker |-> S(s_X), date |-> S(s_d1), sentiment_score |-> F(-5)]>>}

\* the dataframes a stage can read from its source files: the first rows of
\* a sample, up to MaxStageRows of them
StageInputs(t) ==
    UNION {{SubSeq(s, 1, n) : n \in {m \in 0..MaxStageRows : m <= Len(s)}} :
              s \in StageSamples(t)}

\* what a stage function returned: None, or a dataframe
NoneDf == [none |-> TRUE, rows |-> <<>>]

Df(rows) == [none |-> FALSE, rows |-> rows]

\* validate_table, drop_duplicates(keep='last') on the entity key, and the
\* contents of valid_<table>.csv and invalid_<table>.csv, common to the five
\* stages (stocks_raw lines 120-133)
ValidateAndDedupe(t, merged_df, rf) ==
    LET Persisted(v) ==
            [raised |-> v.raised,
             valid |-> drop_duplicates(RowsOf(v.valid), EntityKey(t)),
             invalid |-> RowsOf(v.invalid)]
    IN  Persisted(validate_table(merged_df, t, rf))

\* the two partition files of table t written into the execution directory
WriteParts(fs, t, out) ==
    [n \in (DOMAIN fs) \cup {"valid_" \o t, "invalid_" \o t} |->
        IF n = "valid_" \o t THEN out.valid
        ELSE IF n = "invalid_" \o t THEN out.invalid
        ELSE fs[n]]

\* one more entry of a function
With(f, key, val) == [n \in (DOMAIN f) \cup {key} |-> IF n = key THEN val ELSE f[n]]

\* return value of stocks_raw and company_metadata, lines 135-147 and 234-249:
\* None when there is no valid row or the load call raised
ReturnStrict(out, load_ok) ==
    IF Len(out.valid) > 0 /\ load_ok THEN Df(out.valid) ELSE NoneDf

\* return value of exchange_rates, macro_raw and sentiment, lines 322-330,
\* 466-474 and 515-523: the valid partition, whatever the load call did
ReturnLenient(out, load_ok) == Df(out.valid)

\* the outcomes the next load call can have: it can raise while fewer than
\* MaxLoadFailures load calls of the run have raised
LoadChoices(ls) ==
    IF Cardinality({n \in DOMAIN ls : ls[n] = "failed"}) < MaxLoadFailures
    THEN {TRUE, FALSE} ELSE {TRUE}

\* the load call is made only for a non-empty valid partition
LoadOutcome(ls, t, out, load_ok) ==
    IF Len(out.valid) > 0 THEN With(ls, t, IF load_ok THEN "ok" ELSE "failed") ELSE ls

\* macro_raw lines 367-369 and 438-444: the year column and the full quarter label
MacroPrepare(row) ==
    Put(Put(row, "year", I(ThisYear)), "quarter",
        IF Get(row, "quarter").k = "str"
        THEN S(NatStr(ThisYear) \o <<"-">> \o Get(row, "quarter").v) ELSE Null)

PrepareInput(t, d) ==
    IF t = "macro_raw" THEN [n \in 1..Len(d) |-> MacroPrepare(d[n])] ELSE d

\* a run of merge() starts: execution_dir() made the directory, refs={}
InitMerge ==
    /\ RunsIdle
    /\ ExtrasIdle
    /\ mpc = "stocks_raw"
    /\ history \in BOOLEAN
    /\ mrefs = NoRefs
    /\ files = <<>>
    /\ merged = {}
    /\ stage_in = [table |-> "", df |-> <<>>]
    /\ ret = <<>>
    /\ started = <<>>
    /\ loads = <<>>
    /\ facts = NoFacts
    /\ result = "running"
    /\ vpc = "off"
    /\ table_name = ""
    /\ refs = NoRefs
    /\ df = <<>>
    /\ idx = 0
    /\ unique_trackers = <<>>
    /\ valid_data = <<>>
    /\ invalid_data = <<>>

\* a faulty stage order: sentiment is left out
NextStage_skips(t) ==
    CASE t = "stocks_raw" -> "company_metadata"
      [] t = "company_metadata" -> "exchange_rates"
      [] t = "exchange_rates" -> "macro_raw"
      [] OTHER -> "kpi"

\* the stage after table stage t in merge()
NextStage(t) ==
    CASE t = "stocks_raw" -> "company_metadata"
      [] t = "company_metadata" -> "exchange_rates"
      [] t = "exchange_rates" -> "macro_raw"
      [] t = "macro_raw" -> "sentiment"
      [] OTHER -> "kpi"

\* a faulty reference map: the base result is not entered
refs_after_base_dropped(rf, stocks_df) == rf

\* merge() line 548: refs["stocks_raw"]=stocks_df
refs_after_base(rf, stocks_df) == With(rf, "stocks_raw", stocks_df.rows)

\* a faulty base test: the run goes on whatever the base stage returned
BaseFailed_never(stocks_df) == FALSE

\* merge() line 542: the base stage gave no usable result
BaseFailed(stocks_df) == stocks_df.none \/ Len(stocks_df.rows) = 0

\* stocks_raw returns None before validation (lines 49-51, 97-99, 110-118):
\* source directory absent, no period file matched, or the live file is absent
\* or unreadable; merge() then returns without a result (lines 542-546)
MStocksUnavailable ==
    /\ mpc = "stocks_raw"
    /\ started' = Append(started, "stocks_raw")
    /\ ret' = With(ret, "stocks_raw", NoneDf)
    /\ result' = "None"
    /\ mpc' = "done"
    /\ UNCHANGED <<history, mrefs, files, merged, stage_in, loads, facts>>
    /\ UNCHANGED <<vvars, rvars, xvars>>

\* stocks_raw reads its data, validates, deduplicates, persists and loads
\* (lines 101-147); merge() goes on only with a non-empty result (lines 542-551)
MStocksValidated ==
    /\ mpc = "stocks_raw"
    /\ \E d \in StageInputs("stocks_raw"), load_ok \in LoadChoices(loads) :
          \E out \in {ValidateAndDedupe("stocks_raw", d, NoRefs)} :
          LET r == ReturnStrict(out, load_ok)
          IN  /\ ~out.raised
              /\ stage_in' = [table |-> "stocks_raw", df |-> d]
              /\ merged' = IF history THEN merged \cup {"stocks_raw"} ELSE merged
              /\ files' = WriteParts(files, "stocks_raw", out)
              /\ loads' = LoadOutcome(loads, "stocks_raw", out, load_ok)
              /\ ret' = With(ret, "stocks_raw", r)
              /\ IF BaseFailed(r)
                 THEN /\ result' = "None"
                      /\ mpc' = "done"
                      /\ mrefs' = mrefs
                 ELSE /\ result' = result
                      /\ mpc' = "company_metadata"
                      /\ mrefs' = refs_after_base(mrefs, r)
    /\ started' = Append(started, "stocks_raw")
    /\ UNCHANGED <<history, facts>>
    /\ UNCHANGED <<vvars, rvars, xvars>>

\* a later table stage returns None before validation: its source is absent,
\* holds no data or cannot be read, or (sentiment, lines 481-483) the run is
\* historical; merge() logs it and goes on
MStageUnavailable(t) ==
    /\ mpc = t
    /\ started' = Append(started, t)
    /\ ret' = With(ret, t, NoneDf)
    /\ mpc' = NextStage(t)
    /\ UNCHANGED <<history, mrefs, files, merged, stage_in, loads, facts, result>>
    /\ UNCHANGED <<vvars, rvars, xvars>>

\* company_metadata lines 191-249 and merge() lines 558-563
MCompanyValidated ==
    /\ mpc = "company_metadata"
    /\ \E d \in StageInputs("company_metadata"), load_ok \in LoadChoices(loads) :
          \E out \in {ValidateAndDedupe("company_metadata", d, mrefs)} :
          LET r == ReturnStrict(out, load_ok)
          IN  /\ ~out.raised
              /\ stage_in' = [table |-> "company_metadata", df |-> d]
              /\ merged' = IF history THEN merged \cup {"company_metadata"} ELSE merged
              /\ files' = WriteParts(files, "company_metadata", out)
              /\ loads' = LoadOutcome(loads, "company_metadata", out, load_ok)
              /\ ret' = With(ret, "company_metadata", r)
              /\ mrefs' = IF r.none THEN mrefs ELSE With(mrefs, "company_metadata", r.rows)
    /\ started' = Append(started, "company_metadata")
    /\ mpc' = "exchange_rates"
    /\ UNCHANGED <<history, facts, result>>
    /\ UNCHANGED <<vvars, rvars, xvars>>

\* exchange_rates lines 290-330 and macro_raw lines 381-474, validated without
\* references; merge() lines 570-581
MIndependentValidated(t) ==
    /\ mpc = t
    /\ \E d \in StageInputs(t), load_ok \in LoadChoices(loads) :
          \E out \in {ValidateAndDedupe(t, PrepareInput(t, d), NoRefs)} :
              /\ ~out.raised
              /\ stage_in' = [table |-> t, df |-> PrepareInput(t, d)]
              /\ merged' = IF history THEN merged \cup {t} ELSE merged
              /\ files' = WriteParts(files, t, out)
              /\ loads' = LoadOutcome(loads, t, out, load_ok)
              /\ ret' = With(ret, t, ReturnLenient(out, load_ok))
    /\ started' = Append(started, t)
    /\ mpc' = NextStage(t)
    /\ UNCHANGED <<history, mrefs, facts, result>>
    /\ UNCHANGED <<vvars, rvars, xvars>>

\* a faulty sentiment stage: it processes the day's file in either mode
MSentimentValidated_anyMode ==
    /\ mpc = "sentiment"
    /\ \E d \in StageInputs("sentiment"), load_ok \in LoadChoices(loads) :
          \E out \in {ValidateAndDedupe("sentiment", d, mrefs)} :
              /\ ~out.raised
              /\ stage_in' = [table |-> "sentiment", df |-> d]
              /\ files' = WriteParts(files, "sentiment", out)
              /\ loads' = LoadOutcome(loads, "sentiment", out, load_ok)
              /\ ret' = With(ret, "sentiment", ReturnLenient(out, load_ok))
    /\ started' = Append(started, "sentiment")
    /\ mpc' = "kpi"
    /\ UNCHANGED <<history, mrefs, merged, facts, result>>
    /\ UNCHANGED <<vvars, rvars, xvars>>

\* sentiment lines 484-523, live mode only; merge() lines 586-590
MSentimentValidated ==
    /\ mpc = "sentiment"
    /\ ~history
    /\ \E d \in StageInputs("sentiment"), load_ok \in LoadChoices(loads) :
          \E out \in {ValidateAndDedupe("sentiment", d, mrefs)} :
              /\ ~out.raised
              /\ stage_in' = [table |-> "sentiment", df |-> d]
              /\ files' = WriteParts(files, "sentiment", out)
              /\ loads' = LoadOutcome(loads, "sentiment", out, load_ok)
              /\ ret' = With(ret, "sentiment", ReturnLenient(out, load_ok))
    /\ started' = Append(started, "sentiment")
    /\ mpc' = "kpi"
    /\ UNCHANGED <<history, mrefs, merged, facts, result>>
    /\ UNCHANGED <<vvars, rvars, xvars>>

----------------------------------------------------------------------------
(* calculate_all_kpis, as far as the row sets of stock_facts and              *)
(* analytics_summary go (the numeric measures are not part of the rows here) *)

\* code point of a character of the sample alphabet
Ord(c) ==
    CASE c = "\t" -> 9 [] c = "\n" -> 10 [] c = " " -> 32 [] c = "+" -> 43
      [] c = "-" -> 45 [] c = "." -> 46 [] c \in DigitChars -> 48 + DigitVal(c)
      [] c = ":" -> 58 [] c = "A" -> 65 [] c = "B" -> 66 [] c = "C" -> 67
      [] c = "N" -> 78 [] c = "Q" -> 81 [] c = "X" -> 88 [] c = "[" -> 91
      [] c = "]" -> 93 [] c = "a" -> 97 [] c = "b" -> 98 [] c = "c" -> 99
      [] c = "n" -> 110 [] c = "q" -> 113 [] c = "x" -> 120

\* s < t for Python strings
RECURSIVE StrLess(_, _)
StrLess(s, t) ==
    IF Len(t) = 0 THEN FALSE
    ELSE IF Len(s) = 0 THEN TRUE
    ELSE IF s[1] # t[1] THEN Ord(s[1]) < Ord(t[1])
    ELSE StrLess(Tail(s), Tail(t))

\* a < b for two cells of one sorted column; nulls sort last
ValLess(a, b) ==
    CASE a.k = "null" -> FALSE
      [] b.k = "null" -> TRUE
      [] a.k = "str" /\ b.k = "str" -> StrLess(a.v, b.v)
      [] a.k = "date" /\ b.k = "date" ->
           \/ a.v.y < b.v.y
           \/ (a.v.y = b.v.y /\ a.v.m < b.v.m)
           \/ (a.v.y = b.v.y /\ a.v.m = b.v.m /\ a.v.d < b.v.d)
      [] a.k \in {"int", "float"} /\ b.k \in {"int", "float"} -> ToFloat(a) < ToFloat(b)
      [] OTHER -> FALSE

\* row r sorts before row q on the columns by (sort_values, groupby)
RECURSIVE RowLess(_, _, _, _)
RowLess(r, q, by, n) ==
    IF n > Len(by) THEN FALSE
    ELSE IF ValLess(Get(r, by[n]), Get(q, by[n])) THEN TRUE
    ELSE IF ValLess(Get(q, by[n]), Get(r, by[n])) THEN FALSE
    ELSE RowLess(r, q, by, n + 1)

\* the rows of the set Rows in ascending order of the columns by
RECURSIVE SortRows(_, _)
SortRows(Rows, by) ==
    IF Rows = {} THEN <<>>
    ELSE LET first == CHOOSE r \in Rows : \A q \in Rows : ~RowLess(q, r, by, 1)
         IN  <<first>> \o SortRows(Rows \ {first}, by)

\* a cell written by to_csv and read back by read_csv
CsvCell(val) ==
    CASE val.k = "date" ->
           S(NatStr(val.v.y) \o <<"-">> \o Pad2(val.v.m) \o <<"-">> \o Pad2(val.v.d))
      [] val.k = "str" ->
           IF val.v \in {<<>>, <<"n", "a", "n">>, <<"N", "a", "N">>, <<"N", "A">>} THEN Null
           ELSE IF fullmatch_int(val.v) THEN I(int_of_str(val.v))
           ELSE IF FloatSyntax(val.v) THEN F(FloatOfStr(val.v))
           ELSE val
      [] OTHER -> val

\* pd.read_csv of a file written by to_csv(index=False)
read_csv(rows) ==
    [n \in 1..Len(rows) |-> [c \in DOMAIN rows[n] |-> CsvCell(rows[n][c])]]

\* the four mandatory inputs, lines 19-66: a file is missing or has no rows
KpiInputs == <<"valid_stocks_raw", "valid_macro_raw", "valid_company_metadata", "valid_exchange_rates">>

KpiInputMissing(fs) ==
    \E n \in 1..Len(KpiInputs) :
        IF KpiInputs[n] \in DOMAIN fs THEN Len(fs[KpiInputs[n]]) = 0 ELSE TRUE

\* lines 69-74: the date columns cannot be converted
KpiDateError(fs) ==
    \E name \in {"valid_stocks_raw", "valid_exchange_rates"} :
        \E n \in 1..Len(fs[name]) : ~CanDate(Get(read_csv(fs[name])[n], "date"))

\* calculate_all_kpis returns None before any fact table is computed
KpiReturnsNone(fs) == IF KpiInputMissing(fs) THEN TRUE ELSE KpiDateError(fs)

\* lines 70, 79 and 126-133: the rows of stock_facts, by ticker and date, with
\* the year, month and quarter of the date
StockFacts(fs) ==
    LET stocks_df == read_csv(fs["valid_stocks_raw"])
        dated == {LET r == stocks_df[n]
                      dt == to_datetime(Get(r, "date"))
                  IN  [ticker |-> Get(r, "ticker"), company |-> Get(r, "company"), date |-> dt,
                       year |-> I(dt.v.y), month |-> I(dt.v.m),
                       quarter |-> I(((dt.v.m - 1) \div 3) + 1)] : n \in 1..Len(stocks_df)}
    IN  SortRows(dated, <<"ticker", "date">>)

\* lines 231-238: one row per (ticker, company, year, quarter), in key order
StockAgg(stock_facts) ==
    SortRows({[ticker |-> stock_facts[n].ticker, company |-> stock_facts[n].company,
               year |-> stock_facts[n].year, quarter |-> stock_facts[n].quarter] :
                  n \in {m \in 1..Len(stock_facts) :
                            notna(stock_facts[m].ticker) /\ notna(stock_facts[m].company)}},
             <<"ticker", "company", "year", "quarter">>)

\* line 247: the left merge of one stock_agg row with the company rows on ticker
RECURSIVE JoinSector(_, _, _)
JoinSector(agg_row, company_df, n) ==
    IF n > Len(company_df) THEN <<>>
    ELSE (IF Get(company_df[n], "ticker") = agg_row.ticker
          THEN <<[ticker |-> agg_row.ticker, company |-> agg_row.company, year |-> agg_row.year,
                  quarter |-> agg_row.quarter, sector_name |-> Get(company_df[n], "industry")]>>
          ELSE <<>>) \o JoinSector(agg_row, company_df, n + 1)

\* lines 230-324: the rows of the analytics frame before the final deduplication
RECURSIVE Analytics(_, _, _)
Analytics(stock_agg, company_df, n) ==
    IF n > Len(stock_agg) THEN <<>>
    ELSE LET hits == JoinSector(stock_agg[n], company_df, 1)
         IN  (IF hits = <<>>
              THEN <<[ticker |-> stock_agg[n].ticker, company |-> stock_agg[n].company,
                      year |-> stock_agg[n].year, quarter |-> stock_agg[n].quarter,
                      sector_name |-> Null]>>
              ELSE hits) \o Analytics(stock_agg, company_df, n + 1)

AnalyticsFrame(fs) ==
    Analytics(StockAgg(StockFacts(fs)), read_csv(fs["valid_company_metadata"]), 1)

\* lines 325-327: analytics_summary
AnalyticsSummary(fs) == drop_duplicates(AnalyticsFrame(fs), EntityKey("analytics_summary"))

FactTables == <<"stock_facts", "macro_facts", "sector_lookup", "analytics_summary">>

\* a faulty end of merge(): without fact tables it returns no result
MKpiFailed_no_result ==
    /\ mpc = "kpi"
    /\ KpiReturnsNone(files)
    /\ started' = Append(started, "kpi")
    /\ result' = "None"
    /\ mpc' = "done"
    /\ stage_in' = [table |-> "kpi", df |-> <<>>]
    /\ UNCHANGED <<history, mrefs, files, merged, ret, loads, facts>>
    /\ UNCHANGED <<vvars, rvars, xvars>>

\* calculate_all_kpis returns None (lines 26-74); merge() lines 618-624
MKpiFailed ==
    /\ mpc = "kpi"
    /\ KpiReturnsNone(files)
    /\ started' = Append(started, "kpi")
    /\ result' = "exec_dir"
    /\ mpc' = "done"
    /\ stage_in' = [table |-> "kpi", df |-> <<>>]
    /\ UNCHANGED <<history, mrefs, files, merged, ret, loads, facts>>
    /\ UNCHANGED <<vvars, rvars, xvars>>

\* a faulty KPI engine: it returns the tables computed before the failure
MKpiStageFailed_partial ==
    /\ mpc = "kpi"
    /\ ~KpiReturnsNone(files)
    /\ \E k \in 1..Len(FactTables) :
          /\ files' = IF k > 1 THEN With(files, "stock_facts", StockFacts(files)) ELSE files
          /\ facts' = [ok |-> TRUE, tables |-> {FactTables[n] : n \in 1..(k - 1)},
                       stock_facts |-> <<>>, analytics_summary |-> <<>>]
    /\ started' = Append(started, "kpi")
    /\ result' = "exec_dir"
    /\ mpc' = "done"
    /\ stage_in' = [table |-> "kpi", df |-> <<>>]
    /\ UNCHANGED <<history, mrefs, merged, ret, loads>>
    /\ UNCHANGED <<vvars, rvars, xvars>>

\* the computation of fact table k raises (transform.py lines 143-145, 207-209,
\* 224-226, 346-350): the files of the tables before it stay written and
\* calculate_all_kpis returns None; merge() lines 615-624
MKpiStageFailed ==
    /\ mpc = "kpi"
    /\ ~KpiReturnsNone(files)
    /\ \E k \in 1..Len(FactTables) :
          /\ files' = IF k > 1 THEN With(files, "stock_facts", StockFacts(files)) ELSE files
          /\ facts' = NoFacts
    /\ started' = Append(started, "kpi")
    /\ result' = "exec_dir"
    /\ mpc' = "done"
    /\ stage_in' = [table |-> "kpi", df |-> <<>>]
    /\ UNCHANGED <<history, mrefs, merged, ret, loads>>
    /\ UNCHANGED <<vvars, rvars, xvars>>

\* calculate_all_kpis returns the fact tables; merge() loads them one after the
\* other until a load call raises (lines 599-617), and returns exec_dir
MKpiComputed ==
    /\ mpc = "kpi"
    /\ ~KpiReturnsNone(files)
    /\ facts' = [ok |-> TRUE, tables |-> {FactTables[n] : n \in 1..Len(FactTables)},
                 stock_facts |-> StockFacts(files),
                 analytics_summary |-> AnalyticsSummary(files)]
    /\ files' = With(With(files, "stock_facts", StockFacts(files)),
                     "analytics_summary", AnalyticsSummary(files))
    /\ \E loaded \in {n \in 0..Len(FactTables) : n = Len(FactTables) \/ FALSE \in LoadChoices(loads)} :
          loads' = [n \in (DOMAIN loads) \cup {FactTables[i] : i \in 1..(IF loaded < 4 THEN loaded + 1 ELSE 4)} |->
                       IF n \in {FactTables[i] : i \in 1..loaded} THEN "ok"
                       ELSE IF n \in DOMAIN loads THEN loads[n] ELSE "failed"]
    /\ started' = Append(started, "kpi")
    /\ result' = "exec_dir"
    /\ mpc' = "done"
    /\ stage_in' = [table |-> "kpi", df |-> AnalyticsFrame(files)]
    /\ UNCHANGED <<history, mrefs, merged, ret>>
    /\ UNCHANGED <<vvars, rvars, xvars>>

NextMerge ==
    \/ MStocksUnavailable
    \/ MStocksValidated
    \/ MStageUnavailable("company_metadata")
    \/ MCompanyValidated
    \/ MStageUnavailable("exchange_rates")
    \/ MIndependentValidated("exchange_rates")
    \/ MStageUnavailable("macro_raw")
    \/ MIndependentValidated("macro_raw")
    \/ MStageUnavailable("sentiment")
    \/ MSentimentValidated
    \/ MKpiFailed
    \/ MKpiStageFailed
    \/ MKpiComputed

SpecMerge == InitMerge /\ [][NextMerge]_vars

\* the whole model: a call of validate_table, or a run of merge
----------------------------------------------------------------------------
(* Runs of merge started by the watcher: each is a check.py process *)

\* exec_dir of a process that has not called execution_dir yet
NoDir == -1

InitRuns ==
    /\ RunsIdle
    /\ ExtrasIdle
    /\ MergeIdle
    /\ vpc = "off"
    /\ table_name = ""
    /\ refs = NoRefs
    /\ df = <<>>
    /\ idx = 0
    /\ unique_trackers = <<>>
    /\ valid_data = <<>>
    /\ invalid_data = <<>>

\* one more position of process p
Advance(p, pc, dir) == [procs EXCEPT ![p] = [mode |-> procs[p].mode, pc |-> pc, exec_dir |-> dir]]

\* the wall clock reaches the next minute
Tick ==
    /\ now < MaxMinute
    /\ now' = now + 1
    /\ UNCHANGED <<procs, written>>
    /\ UNCHANGED <<vvars, mvars, xvars>>

\* watcher.py start_live_scheduler: Popen of check.py --mode live, once
StartLiveScheduler ==
    /\ Len(procs) < MaxProcs
    /\ \A p \in DOMAIN procs : procs[p].mode # "live"
    /\ procs' = Append(procs, [mode |-> "live", pc |-> "scheduled", exec_dir |-> NoDir])
    /\ UNCHANGED <<now, written>>
    /\ UNCHANGED <<vvars, mvars, xvars>>

\* watcher.py on_created / on_modified -> process_config -> trigger_historical:
\* Popen of check.py --config, which returns at once
TriggerHistorical ==
    /\ Len(procs) < MaxProcs
    /\ procs' = Append(procs, [mode |-> "historical", pc |-> "collect", exec_dir |-> NoDir])
    /\ UNCHANGED <<now, written>>
    /\ UNCHANGED <<vvars, mvars, xvars>>

\* check.py run_daily_live_collection lines 714-737: the scheduled job fires
\* and collects the day's data
RunDailyLiveCollection(p) ==
    /\ procs[p].mode = "live"
    /\ procs[p].pc = "scheduled"
    /\ procs' = Advance(p, "merge", NoDir)
    /\ UNCHANGED <<now, written>>
    /\ UNCHANGED <<vvars, mvars, xvars>>

\* check.py lines 835-846: the historical process collects its range
CollectHistorical(p) ==
    /\ procs[p].mode = "historical"
    /\ procs[p].pc = "collect"
    /\ procs' = Advance(p, "merge", NoDir)
    /\ UNCHANGED <<now, written>>
    /\ UNCHANGED <<vvars, mvars, xvars>>

\* merge.py execution_dir lines 27-34, called at merge() line 528: the path is
\* Execution/<year>/<month>/<day>/<HH:MM> and makedirs accepts an existing one
execution_dir(p) ==
    /\ procs[p].pc = "merge"
    /\ procs' = Advance(p, "stages", now)
    /\ UNCHANGED <<now, written>>
    /\ UNCHANGED <<vvars, mvars, xvars>>

\* merge() lines 538-590: the table stages write their partitions into
\* exec_dir; when the base stage fails, merge() returns (lines 542-546)
WritePartitions(p) ==
    /\ procs[p].pc = "stages"
    /\ \E base_ok \in BOOLEAN :
          IF base_ok
          THEN /\ written' = written \cup {[dir |-> procs[p].exec_dir, run |-> p, kind |-> "partitions"]}
               /\ procs' = Advance(p, "kpi", procs[p].exec_dir)
          ELSE /\ written' = written
               /\ procs' = Advance(p, "done", procs[p].exec_dir)
    /\ UNCHANGED now
    /\ UNCHANGED <<vvars, mvars, xvars>>

\* merge() lines 595-624: calculate_all_kpis writes the fact tables into
\* exec_dir, or fails before writing any
WriteFactTables(p) ==
    /\ procs[p].pc = "kpi"
    /\ \E kpi_ok \in BOOLEAN :
          written' = IF kpi_ok
                     THEN written \cup {[dir |-> procs[p].exec_dir, run |-> p, kind |-> "fact_tables"]}
                     ELSE written
    /\ procs' = Advance(p, "done", procs[p].exec_dir)
    /\ UNCHANGED now
    /\ UNCHANGED <<vvars, mvars, xvars>>

NextRuns ==
    \/ Tick
    \/ StartLiveScheduler
    \/ TriggerHistorical
    \/ \E p \in DOMAIN procs : RunDailyLiveCollection(p)
    \/ \E p \in DOMAIN procs : CollectHistorical(p)
    \/ \E p \in DOMAIN procs : execution_dir(p)
    \/ \E p \in DOMAIN procs : WritePartitions(p)
    \/ \E p \in DOMAIN procs : WriteFactTables(p)

SpecRuns == InitRuns /\ [][NextRuns]_vars

----------------------------------------------------------------------------
(* calculate_all_kpis on its own: the numeric measures.                     *)
(* A float64 is a fraction [n, d] in lowest terms with d > 0; d = 0 is NaN. *)
(* Rounding of the binary representation is left out.                       *)

Abs(a) == IF a < 0 THEN -a ELSE a

RECURSIVE GCD(_, _)
GCD(a, b) == IF b = 0 THEN a ELSE GCD(b, a % b)

NaN == [n |-> 0, d |-> 0]

IsNaN(x) == x.d = 0

\* the fraction n/d, d # 0
Rat(n, d) ==
    LET Lowest(g) == [n |-> (IF d < 0 THEN -n ELSE n) \div g, d |-> Abs(d) \div g]
    IN  Lowest(GCD(Abs(n), Abs(d)))

Num(n) == [n |-> n, d |-> 1]

\* a - b, a + b, a / b and a * k of numpy; x / 0 is inf or NaN, which every use
\* below replaces by the same value as NaN
Sub(a, b) == IF IsNaN(a) \/ IsNaN(b) THEN NaN ELSE Rat(a.n * b.d - b.n * a.d, a.d * b.d)

Add(a, b) == IF IsNaN(a) \/ IsNaN(b) THEN NaN ELSE Rat(a.n * b.d + b.n * a.d, a.d * b.d)

Div(a, b) == IF IsNaN(a) \/ IsNaN(b) \/ b.n = 0 THEN NaN ELSE Rat(a.n * b.d, a.d * b.n)

Times(a, k) == IF IsNaN(a) THEN NaN ELSE Rat(a.n * k, a.d)

\* a < b; a comparison with NaN is False
Less(a, b) == ~IsNaN(a) /\ ~IsNaN(b) /\ a.n * b.d < b.n * a.d

\* fillna(0) after replace([inf, -inf], ...)
fillna0(x) == IF IsNaN(x) THEN Num(0) ELSE x

\* Series.mean(): the mean of the cells that are not NaN, NaN when there is none
RECURSIVE SumOf(_, _)
SumOf(xs, n) == IF n > Len(xs) THEN Num(0) ELSE Add(fillna0(xs[n]), SumOf(xs, n + 1))

mean(xs) ==
    LET Over(cnt) == IF cnt = 0 THEN NaN ELSE Div(SumOf(xs, 1), Num(cnt))
    IN  Over(Cardinality({n \in 1..Len(xs) : ~IsNaN(xs[n])}))


----------------------------------------------------------------------------
(* calculate_all_kpis on its own: sample inputs *)

\* the tickers of the samples, in ascending order
KTickers == <<"A", "B", "C">>

TickerPos(t) == CHOOSE n \in 1..Len(KTickers) : KTickers[n] = t

Dt(y, m, d) == [y |-> y, m |-> m, d |-> d]

\* the trading days of the samples, in ascending order: one in the last
\* quarter of 2023 and two in the first quarter of 2024
KDates == <<Dt(2023, 11, 15), Dt(2024, 1, 10), Dt(2024, 2, 20)>>

DateLess(a, b) ==
    \/ a.y < b.y
    \/ (a.y = b.y /\ a.m < b.m)
    \/ (a.y = b.y /\ a.m = b.m /\ a.d < b.d)

\* a (ticker, day) cell of a price sample: no row, or a row with this close
NoRow == [has |-> FALSE, close |-> NaN]

Close(x) == [has |-> TRUE, close |-> x]

\* the closes of one ticker on the three days
PricePaths ==
    {<<a, b, c>> : a \in {NoRow, Close(Num(100))},
                   b \in {Close(Num(0)), Close(Num(100)), Close(NaN)},
                   c \in {NoRow, Close(Num(100)), Close(Num(110))}}

SteadyPaths ==
    {<<Close(Num(100)), Close(Num(100)), c>> : c \in {NoRow, Close(Num(100)), Close(Num(110))}}

\* valid_stocks_raw.csv as read at line 40: one row per (ticker, date), which
\* the stocks_raw stage guarantees (merge.py line 122)
StockRows(paths) ==
    {[ticker |-> KTickers[c[1]], date |-> KDates[c[2]], close |-> paths[c[1]][c[2]].close] :
        c \in {x \in (1..Len(KTickers)) \X (1..Len(KDates)) : paths[x[1]][x[2]].has}}

StockSamples == {StockRows(<<a, b, c>>) : a \in PricePaths, b \in PricePaths, c \in SteadyPaths}

----------------------------------------------------------------------------
(* calculate_all_kpis on its own: stock_facts, lines 76-145 *)

\* line 79: sort_values(['ticker', 'date'])
StockRowLess(r, q) ==
    \/ TickerPos(r.ticker) < TickerPos(q.ticker)
    \/ (r.ticker = q.ticker /\ DateLess(r.date, q.date))

RECURSIVE sort_values(_)
sort_values(Rows) ==
    IF Rows = {} THEN <<>>
    ELSE LET Rest(first) == <<first>> \o sort_values(Rows \ {first})
         IN  Rest(CHOOSE r \in Rows : \A q \in Rows : ~StockRowLess(q, r))

\* a faulty shift: the previous row of the frame, whatever its ticker
previous_close_ungrouped(sorted, i) == IF i > 1 THEN sorted[i - 1].close ELSE NaN

\* line 82: groupby('ticker')['close'].shift(1), the close of the nearest
\* earlier row of the same ticker, NaN when there is none
previous_close(sorted, i) ==
    LET Earlier(js) == IF js = {} THEN NaN
                       ELSE sorted[CHOOSE j \in js : \A k \in js : k <= j].close
    IN  Earlier({j \in 1..(i - 1) : sorted[j].ticker = sorted[i].ticker})

\* lines 83-91: np.where on the previous close, then inf and NaN become 0
daily_return(close, previous) ==
    fillna0(IF ~IsNaN(previous) /\ previous.n # 0
            THEN Times(Div(Sub(close, previous), previous), 100)
            ELSE Num(0))

\* lines 79-133: the rows of stock_facts with the measures modelled here
stock_facts(stocks_df) ==
    LET Measures(sorted) ==
            [i \in 1..Len(sorted) |->
                [ticker |-> sorted[i].ticker, date |-> sorted[i].date,
                 close |-> fillna0(sorted[i].close),
                 daily_return |-> daily_return(sorted[i].close, previous_close(sorted, i)),
                 year |-> sorted[i].date.y,
                 quarter |-> ((sorted[i].date.m - 1) \div 3) + 1]]
    IN  Measures(sort_values(stocks_df))


----------------------------------------------------------------------------
(* calculate_all_kpis on its own: macro_facts, lines 147-209 *)

\* the year of start_date, or of today without one (line 151)
ip_yr == 2024

\* a quarter label: "<y>-Q<q>", or "Q<q>" when y = 0
Quarter(y, q) == [y |-> y, q |-> q]

MacroRow(y, q, gdp, inflation) == [quarter |-> Quarter(y, q), GDP |-> gdp, inflation |-> inflation]

\* the quarterly rows of one year in a sample: none, one quarter, or two
YearRows(y) ==
    {{}} \cup
    {{MacroRow(y, 1, g, Num(2))} : g \in {Num(0), Num(90), Num(100), NaN}} \cup
    {{MacroRow(y, 1, Num(100), Num(2)), MacroRow(y, 2, g, i)} :
        g \in {Num(60), Num(120)}, i \in {Num(4), NaN}}

\* valid_macro_raw.csv as read at line 41, labels with the year, or all
\* labels without it
MacroSamples ==
    ({a \cup b \cup c : a \in YearRows(2022), b \in YearRows(2023), c \in YearRows(2024)}
        \cup YearRows(0)) \ {{}}

\* lines 152-159: the year column
macro_year(macro_df, row) ==
    IF \E r \in macro_df : r.quarter.y # 0 THEN row.quarter.y ELSE ip_yr

\* the cells of column col of the rows of one year, in quarter order
RECURSIVE CellsOf(_, _)
CellsOf(Rows, col) ==
    IF Rows = {} THEN <<>>
    ELSE LET Rest(first) == <<first[col]>> \o CellsOf(Rows \ {first}, col)
         IN  Rest(CHOOSE r \in Rows : \A q \in Rows : r.quarter.q <= q.quarter.q)

\* lines 162-175: groupby('year') means, sorted by year
RECURSIVE yearly_means(_, _)
yearly_means(macro_df, years) ==
    IF years = {} THEN <<>>
    ELSE LET Rest(y) ==
                 <<[year |-> y,
                    avg_gdp |-> mean(CellsOf({r \in macro_df : macro_year(macro_df, r) = y}, "GDP")),
                    avg_inflation |-> mean(CellsOf({r \in macro_df : macro_year(macro_df, r) = y}, "inflation"))]>>
                 \o yearly_means(macro_df, years \ {y})
         IN  Rest(CHOOSE y \in years : \A z \in years : y <= z)

\* a faulty recession flag: a year is flagged when its GDP did not grow
is_recession_no_growth(gdp_growth) == IF ~Less(Num(0), gdp_growth) THEN 1 ELSE 0

\* line 195: np.where(gdp_growth < 0, 1, 0)
is_recession(gdp_growth) == IF Less(gdp_growth, Num(0)) THEN 1 ELSE 0

\* lines 178-185: year-over-year growth of the mean GDP, 0 without a previous
\* mean or after a zero one
gdp_growth(avg_gdp, previous_gdp) ==
    fillna0(IF ~IsNaN(previous_gdp) /\ previous_gdp.n # 0
            THEN Times(Div(Sub(avg_gdp, previous_gdp), previous_gdp), 100)
            ELSE Num(0))

\* lines 178-195: growth, trend and recession flag of year n of the means
macro_yearly_row(means, n) ==
    LET Flagged(growth) ==
            [year |-> means[n].year, avg_gdp |-> means[n].avg_gdp,
             avg_inflation |-> means[n].avg_inflation,
             gdp_growth |-> growth,
             inflation_trend |->
                 fillna0(Sub(means[n].avg_inflation,
                             IF n > 1 THEN means[n - 1].avg_inflation ELSE NaN)),
             is_recession |-> is_recession(growth)]
    IN  Flagged(gdp_growth(means[n].avg_gdp, IF n > 1 THEN means[n - 1].avg_gdp ELSE NaN))

macro_yearly(macro_df) ==
    LET Rows(means) == [n \in 1..Len(means) |-> macro_yearly_row(means, n)]
    IN  Rows(yearly_means(macro_df, {macro_year(macro_df, r) : r \in macro_df}))

\* line 196 and 198-203: the left merge on year and the filled numeric columns
macro_facts(macro_df) ==
    {LET Joined(yr) ==
             [quarter |-> r.quarter, year |-> yr.year, GDP |-> fillna0(r.GDP),
              inflation |-> fillna0(r.inflation), gdp_growth |-> yr.gdp_growth,
              inflation_trend |-> yr.inflation_trend, is_recession |-> yr.is_recession]
     IN  Joined(CHOOSE yr \in {macro_yearly(macro_df)[n] : n \in 1..Len(macro_yearly(macro_df))} :
                    yr.year = macro_year(macro_df, r)) : r \in macro_df}

----------------------------------------------------------------------------
(* calculate_all_kpis on its own: sector_lookup and analytics_summary,      *)
(* lines 211-350. A missing industry or sector_name is the empty string.    *)

Company(t, industry) == [ticker |-> t, industry |-> industry]

\* valid_company_metadata.csv as read at line 42: its entity key is rank, so
\* a ticker can occur in several rows
CompanySamples ==
    {<<Company("A", "S1"), Company("B", "S1"), Company("C", "S1")>>,
     <<Company("A", "S1"), Company("B", "S1"), Company("C", "S2")>>,
     <<Company("A", "S1"), Company("A", "S2"), Company("B", "S1"), Company("C", "S1")>>,
     <<Company("A", "S2"), Company("A", "S1"), Company("B", "S1"), Company("C", "S1")>>,
     <<Company("A", "S1"), Company("B", "S1")>>,
     <<Company("A", ""), Company("B", "S1"), Company("C", "S1")>>}

\* lines 213-217: the industries in order of first appearance, numbered
RECURSIVE unique_sectors(_, _, _)
unique_sectors(company_df, n, seen) ==
    IF n > Len(company_df) THEN <<>>
    ELSE IF company_df[n].industry = "" \/ company_df[n].industry \in seen
    THEN unique_sectors(company_df, n + 1, seen)
    ELSE <<company_df[n].industry>> \o unique_sectors(company_df, n + 1, seen \cup {company_df[n].industry})

sector_lookup(company_df) ==
    LET Numbered(names) == [n \in 1..Len(names) |-> [sector_id |-> n, sector_name |-> names[n]]]
    IN  Numbered(unique_sectors(company_df, 1, {}))

\* lines 231-245: one row per (ticker, year, quarter) of stock_facts, in key
\* order, with the mean daily return
RECURSIVE stock_agg(_, _)
stock_agg(sf, done) ==
    LET Groups(todo) ==
            IF todo = {} THEN <<>>
            ELSE LET Group(i) ==
                         <<[ticker |-> sf[i].ticker, year |-> sf[i].year, quarter |-> sf[i].quarter,
                            avg_return |->
                                fillna0(mean([k \in 1..Cardinality({j \in i..Len(sf) :
                                                      /\ sf[j].ticker = sf[i].ticker
                                                      /\ sf[j].year = sf[i].year
                                                      /\ sf[j].quarter = sf[i].quarter}) |->
                                                  sf[i + k - 1].daily_return]))]>>
                         \o stock_agg(sf, done \cup {j \in i..Len(sf) :
                                                        /\ sf[j].ticker = sf[i].ticker
                                                        /\ sf[j].year = sf[i].year
                                                        /\ sf[j].quarter = sf[i].quarter})
                 IN  Group(CHOOSE i \in todo : \A j \in todo : i <= j)
    IN  Groups((1..Len(sf)) \ done)

\* line 246: the left merge of one stock_agg row with the company rows on
\* ticker, one output row per matching company row, in company order
RECURSIVE sector_rows(_, _, _)
sector_rows(agg_row, company_df, n) ==
    IF n > Len(company_df) THEN <<>>
    ELSE (IF company_df[n].ticker = agg_row.ticker
          THEN <<[ticker |-> agg_row.ticker, year |-> agg_row.year, quarter |-> agg_row.quarter,
                  avg_return |-> agg_row.avg_return, sector_name |-> company_df[n].industry]>>
          ELSE <<>>) \o sector_rows(agg_row, company_df, n + 1)

RECURSIVE merge_sector(_, _, _)
merge_sector(agg, company_df, n) ==
    IF n > Len(agg) THEN <<>>
    ELSE LET OrNone(hits) ==
                 IF hits = <<>>
                 THEN <<[ticker |-> agg[n].ticker, year |-> agg[n].year, quarter |-> agg[n].quarter,
                         avg_return |-> agg[n].avg_return, sector_name |-> ""]>>
                 ELSE hits
         IN  OrNone(sector_rows(agg[n], company_df, 1)) \o merge_sector(agg, company_df, n + 1)

\* the rows of analytics in the (sector_name, year, quarter) group of row i
SectorGroup(analytics, i) ==
    {j \in 1..Len(analytics) :
        /\ analytics[j].sector_name = analytics[i].sector_name
        /\ analytics[j].year = analytics[i].year
        /\ analytics[j].quarter = analytics[i].quarter}

\* lines 308-309: rank(ascending=False, method='dense') within the group, 0
\* for a row without a sector
sector_rank(analytics, i) ==
    IF analytics[i].sector_name = "" THEN Num(0)
    ELSE Num(1 + Cardinality({analytics[j].avg_return : j \in
                                 {k \in SectorGroup(analytics, i) :
                                     Less(analytics[i].avg_return, analytics[k].avg_return)}}))

\* a faulty score: once a year is flagged, the mean over all rows of the ticker
recession_resilience_score_all_years(sf, yearly, ticker) ==
    IF \E i \in 1..Len(sf) : \E n \in 1..Len(yearly) :
           yearly[n].year = sf[i].year /\ yearly[n].is_recession = 1
    THEN fillna0(mean([k \in 1..Cardinality({i \in 1..Len(sf) : sf[i].ticker = ticker}) |->
                          sf[(CHOOSE i \in 1..Len(sf) : sf[i].ticker = ticker /\
                                  \A j \in 1..(i - 1) : sf[j].ticker # ticker) + k - 1].daily_return]))
    ELSE Num(0)

\* lines 311-324: the mean daily return of the ticker over the rows of
\* stock_facts whose year is flagged, 0 without such a row
recession_resilience_score(sf, yearly, ticker) ==
    LET Flagged == {i \in 1..Len(sf) :
                       \E n \in 1..Len(yearly) : yearly[n].year = sf[i].year /\ yearly[n].is_recession = 1}
        Score(rows) ==
            IF rows = {} THEN Num(0)
            ELSE fillna0(mean([k \in 1..Cardinality(rows) |->
                                  sf[(CHOOSE f \in [1..Cardinality(rows) -> rows] :
                                          \A a \in 1..Cardinality(rows) : \A b \in 1..Cardinality(rows) :
                                              a < b => f[a] < f[b])[k]].daily_return]))
    IN  Score({i \in Flagged : sf[i].ticker = ticker})

\* lines 246-324: the analytics frame with the measures modelled here
analytics_frame(sf, yearly, company_df) ==
    LET Measures(analytics) ==
            [i \in 1..Len(analytics) |->
                [ticker |-> analytics[i].ticker, year |-> analytics[i].year,
                 quarter |-> analytics[i].quarter, sector_name |-> analytics[i].sector_name,
                 avg_return |-> analytics[i].avg_return,
                 sector_rank |-> sector_rank(analytics, i),
                 recession_resilience_score |-> recession_resilience_score(sf, yearly, analytics[i].ticker)]]
    IN  Measures(merge_sector(stock_agg(sf, {}), company_df, 1))

\* lines 325-327: drop_duplicates(subset=['ticker','year','quarter'], keep='last')
analytics_summary(frame) ==
    SelectSeq2(frame,
               {n \in 1..Len(frame) :
                   ~\E m \in (n + 1)..Len(frame) :
                       /\ frame[m].ticker = frame[n].ticker
                       /\ frame[m].year = frame[n].year
                       /\ frame[m].quarter = frame[n].quarter},
               1)

----------------------------------------------------------------------------
(* calculate_all_kpis on its own: the call, one step per fact table *)

\* no call of validate_table
ValidateOff ==
    /\ vpc = "off"
    /\ table_name = ""
    /\ refs = NoRefs
    /\ df = <<>>
    /\ idx = 0
    /\ unique_trackers = <<>>
    /\ valid_data = <<>>
    /\ invalid_data = <<>>

\* three macro frames: 2024 in recession, 2023 in recession, no recession
MacroFlag24 == {MacroRow(2023, 1, Num(100), Num(2)), MacroRow(2024, 1, Num(90), Num(2))}

MacroFlag23 ==
    {MacroRow(2022, 1, Num(100), Num(2)), MacroRow(2023, 1, Num(90), Num(2)),
     MacroRow(2024, 1, Num(100), Num(2))}

MacroNoFlag == {MacroRow(2023, 1, Num(100), Num(2)), MacroRow(2024, 1, Num(100), Num(2))}

\* the inputs of one call: every stock frame with every company frame, every
\* stock frame with the three macro frames, and every macro frame
KpiSamples ==
    [stocks : StockSamples, macro : {MacroFlag24}, company : CompanySamples]
    \cup [stocks : StockSamples, macro : {MacroFlag23, MacroNoFlag},
          company : {<<Company("A", "S1"), Company("B", "S1"), Company("C", "S2")>>}]
    \cup [stocks : {StockRows(<<a, a, c>>) : a \in {<<NoRow, Close(Num(100)), Close(Num(110))>>},
                                            c \in SteadyPaths},
          macro : MacroSamples,
          company : {<<Company("A", "S1"), Company("B", "S1"), Company("C", "S2")>>}]

\* the four partitions were read and are not empty (lines 19-66)
InitKpi ==
    /\ kpc = "stock_facts"
    /\ kin \in KpiSamples
    /\ kout = <<>>
    /\ MacroRawIdle
    /\ WatcherIdle
    /\ LiveIdle
    /\ ValidateOff
    /\ MergeIdle
    /\ RunsIdle

\* lines 76-145
KStockFacts ==
    /\ kpc = "stock_facts"
    /\ kout' = With(kout, "stock_facts", stock_facts(kin.stocks))
    /\ kpc' = "macro_facts"
    /\ UNCHANGED kin
    /\ UNCHANGED nonk

\* lines 147-209
KMacroFacts ==
    /\ kpc = "macro_facts"
    /\ kout' = With(kout, "macro_facts", macro_facts(kin.macro))
    /\ kpc' = "sector_lookup"
    /\ UNCHANGED kin
    /\ UNCHANGED nonk

\* lines 211-226
KSectorLookup ==
    /\ kpc = "sector_lookup"
    /\ kout' = With(kout, "sector_lookup", sector_lookup(kin.company))
    /\ kpc' = "analytics_summary"
    /\ UNCHANGED kin
    /\ UNCHANGED nonk

\* lines 228-362
KAnalytics ==
    /\ kpc = "analytics_summary"
    /\ kout' = With(kout, "analytics_summary",
                    analytics_summary(analytics_frame(kout["stock_facts"],
                                                      macro_yearly(kin.macro), kin.company)))
    /\ kpc' = "done"
    /\ UNCHANGED kin
    /\ UNCHANGED nonk

NextKpi ==
    \/ KStockFacts
    \/ KMacroFacts
    \/ KSectorLookup
    \/ KAnalytics

SpecKpi == InitKpi /\ [][NextKpi]_vars

----------------------------------------------------------------------------
(* macro_raw in historical mode, merge.py lines 337-416: the year files of  *)
(* macro_data are read and the rows outside the quarter range are dropped   *)

\* start_date and end_date of a historical run, start_date not after end_date
RangeDates ==
    {Dt(y, m, 15) : y \in {2022, 2023, 2024}, m \in {2, 3, 6, 11}}

DateRanges ==
    {r \in [start_date : RangeDates, end_date : RangeDates] :
        ~DateLess(r.end_date, r.start_date)}

\* the <year>.csv files of macro_data: year -> the digits of the quarter
\* labels of the rows
MacroFiles ==
    {[y \in 2021..2025 |-> <<1, 2, 3, 4>>],
     [y \in {2023} |-> <<1, 2>>],
     [y \in {2022, 2024} |-> IF y = 2022 THEN <<4>> ELSE <<1, 3>>],
     [y \in {2021, 2025} |-> <<1, 4>>]}

\* lines 350-376: the rows of the files whose year overlaps the range, with
\* the year and quarter_num columns
RECURSIVE read_year_files(_, _, _, _)
read_year_files(macro_files, years, start_date, end_date) ==
    IF years = {} THEN <<>>
    ELSE LET Rest(y) ==
                 (IF y < start_date.y \/ y > end_date.y THEN <<>>
                  ELSE [n \in 1..Len(macro_files[y]) |->
                           [year |-> y, quarter_num |-> macro_files[y][n]]])
                 \o read_year_files(macro_files, years \ {y}, start_date, end_date)
         IN  Rest(CHOOSE y \in years : \A z \in years : y <= z)

\* lines 384-385
quarter_of(d) == ((d.m - 1) \div 3) + 1

\* a faulty test: the start year is tested before the case that the start
\* and the end year are the same
keeps_row_without_same_year_case(row, start_date, end_date) ==
    IF row.year = start_date.y THEN row.quarter_num >= quarter_of(start_date)
    ELSE IF row.year = end_date.y THEN row.quarter_num <= quarter_of(end_date)
    ELSE start_date.y < row.year /\ row.year < end_date.y

\* lines 389-408: the test of one row
keeps_row(row, start_date, end_date) ==
    IF row.year = start_date.y /\ row.year = end_date.y
    THEN quarter_of(start_date) <= row.quarter_num /\ row.quarter_num <= quarter_of(end_date)
    ELSE IF row.year = start_date.y THEN row.quarter_num >= quarter_of(start_date)
    ELSE IF row.year = end_date.y THEN row.quarter_num <= quarter_of(end_date)
    ELSE start_date.y < row.year /\ row.year < end_date.y

\* lines 387-408
filtered_rows(merged_df, start_date, end_date) ==
    SelectSeq2(merged_df,
               {n \in 1..Len(merged_df) : keeps_row(merged_df[n], start_date, end_date)}, 1)

\* a historical call of macro_raw with its arguments and source files
InitMacroRaw ==
    /\ qpc = "read"
    /\ qin \in [range : DateRanges, files : MacroFiles]
    /\ qout = <<>>
    /\ ValidateOff
    /\ MergeIdle
    /\ RunsIdle
    /\ KpiIdle
    /\ WatcherIdle
    /\ LiveIdle

\* lines 343-381: no file of the range gives None
MacroRawRead ==
    /\ qpc = "read"
    /\ \E all_data \in {read_year_files(qin.files, DOMAIN qin.files,
                                        qin.range.start_date, qin.range.end_date)} :
           IF all_data = <<>>
           THEN qpc' = "done" /\ qout' = [none |-> TRUE, merged_df |-> <<>>]
           ELSE qpc' = "filter" /\ qout' = [none |-> FALSE, merged_df |-> all_data]
    /\ UNCHANGED qin
    /\ UNCHANGED nonq

\* lines 383-416: no row of the range gives None, otherwise the rows go on
\* to the validation
MacroRawFilter ==
    /\ qpc = "filter"
    /\ \E kept \in {filtered_rows(qout.merged_df, qin.range.start_date, qin.range.end_date)} :
           IF kept = <<>>
           THEN qpc' = "done" /\ qout' = [none |-> TRUE, merged_df |-> <<>>]
           ELSE qpc' = "validate" /\ qout' = [none |-> FALSE, merged_df |-> kept]
    /\ UNCHANGED qin
    /\ UNCHANGED nonq

NextMacroRaw ==
    \/ MacroRawRead
    \/ MacroRawFilter

SpecMacroRaw == InitMacroRaw /\ [][NextMacroRaw]_vars

----------------------------------------------------------------------------
(* The event handler of the watcher, watcher.py lines 27-87 *)

\* the config files dropped into watch_folder
ConfigPaths == {"a.json", "b.json"}

\* the threads that deliver events to the handler: the observer of line 109
\* uses one, the second stands for a second observer on the same handler
HandlerThreads == {"t1", "t2"}

HandlerIdle == [pc |-> "idle", path |-> ""]

\* the watcher is started: StockConfigHandler() of line 108
InitWatcher ==
    /\ events = 0
    /\ handlers = [t \in HandlerThreads |-> HandlerIdle]
    /\ processing_files = {}
    /\ historical = [p \in ConfigPaths |-> 0]
    /\ ValidateOff
    /\ MergeIdle
    /\ RunsIdle
    /\ KpiIdle
    /\ MacroRawIdle
    /\ LiveIdle

\* lines 34-44: a created or modified event for a .json path is delivered and
\* process_config is entered
OnEvent(t, path) ==
    /\ events < MaxEvents
    /\ handlers[t].pc = "idle"
    /\ events' = events + 1
    /\ handlers' = [handlers EXCEPT ![t] = [pc |-> "check", path |-> path]]
    /\ UNCHANGED <<processing_files, historical>>
    /\ UNCHANGED nonw

\* lines 48-50: the path is already being processed
SkipProcessing(t) ==
    /\ handlers[t].pc = "check"
    /\ handlers[t].path \in processing_files
    /\ handlers' = [handlers EXCEPT ![t] = HandlerIdle]
    /\ UNCHANGED <<events, processing_files, historical>>
    /\ UNCHANGED nonw

\* line 48: the path is not being processed
PassCheck(t) ==
    /\ handlers[t].pc = "check"
    /\ handlers[t].path \notin processing_files
    /\ handlers' = [handlers EXCEPT ![t].pc = "add"]
    /\ UNCHANGED <<events, processing_files, historical>>
    /\ UNCHANGED nonw

\* lines 52-53
AddProcessing(t) ==
    /\ handlers[t].pc = "add"
    /\ processing_files' = processing_files \cup {handlers[t].path}
    /\ handlers' = [handlers EXCEPT ![t].pc = "process"]
    /\ UNCHANGED <<events, historical>>
    /\ UNCHANGED nonw

\* lines 55-67 and 81-85: the config holds two dates and Popen starts
\* check.py --config without waiting for it
TriggerFromConfig(t) ==
    /\ handlers[t].pc = "process"
    /\ historical' = [historical EXCEPT ![handlers[t].path] = @ + 1]
    /\ handlers' = [handlers EXCEPT ![t].pc = "finally"]
    /\ UNCHANGED <<events, processing_files>>
    /\ UNCHANGED nonw

\* lines 68-76 and 86-87: bad JSON, missing fields, bad dates or a failed Popen
RejectConfig(t) ==
    /\ handlers[t].pc = "process"
    /\ handlers' = [handlers EXCEPT ![t].pc = "finally"]
    /\ UNCHANGED <<events, processing_files, historical>>
    /\ UNCHANGED nonw

\* lines 77-79
DiscardProcessing(t) ==
    /\ handlers[t].pc = "finally"
    /\ processing_files' = processing_files \ {handlers[t].path}
    /\ handlers' = [handlers EXCEPT ![t] = HandlerIdle]
    /\ UNCHANGED <<events, historical>>
    /\ UNCHANGED nonw

\* a check.py --config process comes to its end (check.py lines 775-876)
HistoricalEnds(path) ==
    /\ historical[path] > 0
    /\ historical' = [historical EXCEPT ![path] = @ - 1]
    /\ UNCHANGED <<events, handlers, processing_files>>
    /\ UNCHANGED nonw

NextWatcher ==
    \/ \E t \in HandlerThreads, path \in ConfigPaths : OnEvent(t, path)
    \/ \E t \in HandlerThreads : SkipProcessing(t)
    \/ \E t \in HandlerThreads : PassCheck(t)
    \/ \E t \in HandlerThreads : AddProcessing(t)
    \/ \E t \in HandlerThreads : TriggerFromConfig(t)
    \/ \E t \in HandlerThreads : RejectConfig(t)
    \/ \E t \in HandlerThreads : DiscardProcessing(t)
    \/ \E path \in ConfigPaths : HistoricalEnds(path)

SpecWatcher == InitWatcher /\ [][NextWatcher]_vars

----------------------------------------------------------------------------
(* stocks_live, check.py lines 92-168, called on one day by processes that *)
(* share the stocks_data directory                                         *)

\* the processes that run a live collection on the day: the scheduler of
\* watcher.py line 95, a check.py started with the day as its date range
\* (lines 860-876), or one started by hand
Collectors == {"c1", "c2", "c3"}

\* a faulty test: the output is never found
output_file_exists_never(file) == FALSE

\* line 119: output_file.exists()
output_file_exists(file) == file.exists

\* no process has called stocks_live and the day has no stocks.csv
InitLive ==
    /\ collectors = [c \in Collectors |->
                         [pc |-> "idle", records |-> FALSE, after |-> {}, outcome |-> ""]]
    /\ stocks_csv = [exists |-> FALSE, writers |-> <<>>]
    /\ ValidateOff
    /\ MergeIdle
    /\ RunsIdle
    /\ KpiIdle
    /\ MacroRawIdle
    /\ WatcherIdle

\* lines 94-117: the call starts and reads the company list; after holds the
\* processes whose call had ended by then
StartLive(c) ==
    /\ collectors[c].pc = "idle"
    /\ collectors' = [collectors EXCEPT ![c].pc = "check",
                                        ![c].after = {d \in Collectors : collectors[d].pc = "done"}]
    /\ UNCHANGED stocks_csv
    /\ UNCHANGED nonl

\* lines 102-105: the company list of the year is missing
NoCompanyList(c) ==
    /\ collectors[c].pc = "idle"
    /\ collectors' = [collectors EXCEPT ![c].pc = "done", ![c].outcome = "no_companies",
                                        ![c].after = {d \in Collectors : collectors[d].pc = "done"}]
    /\ UNCHANGED stocks_csv
    /\ UNCHANGED nonl

\* lines 119-121: today's data already exists
SkipLive(c) ==
    /\ collectors[c].pc = "check"
    /\ output_file_exists(stocks_csv)
    /\ collectors' = [collectors EXCEPT ![c].pc = "done", ![c].outcome = "skipped"]
    /\ UNCHANGED stocks_csv
    /\ UNCHANGED nonl

\* lines 123-159: the quotes are fetched, for some ticker or for none
FetchLive(c) ==
    /\ collectors[c].pc = "check"
    /\ ~output_file_exists(stocks_csv)
    /\ \E got \in BOOLEAN :
           collectors' = [collectors EXCEPT ![c].pc = "save", ![c].records = got]
    /\ UNCHANGED stocks_csv
    /\ UNCHANGED nonl

\* lines 162-166: mkdir(exist_ok=True) and to_csv, which replaces the file
SaveLive(c) ==
    /\ collectors[c].pc = "save"
    /\ collectors[c].records
    /\ stocks_csv' = [exists |-> TRUE, writers |-> Append(stocks_csv.writers, c)]
    /\ collectors' = [collectors EXCEPT ![c].pc = "done", ![c].outcome = "saved"]
    /\ UNCHANGED nonl

\* lines 167-168: nothing to save
NothingToSave(c) ==
    /\ collectors[c].pc = "save"
    /\ ~collectors[c].records
    /\ collectors' = [collectors EXCEPT ![c].pc = "done", ![c].outcome = "nothing"]
    /\ UNCHANGED stocks_csv
    /\ UNCHANGED nonl

NextLive ==
    \/ \E c \in Collectors : StartLive(c)
    \/ \E c \in Collectors : NoCompanyList(c)
    \/ \E c \in Collectors : SkipLive(c)
    \/ \E c \in Collectors : FetchLive(c)
    \/ \E c \in Collectors : SaveLive(c)
    \/ \E c \in Collectors : NothingToSave(c)

SpecLive == InitLive /\ [][NextLive]_vars


Init == InitValidate \/ InitMerge \/ InitRuns \/ InitKpi \/ InitMacroRaw \/ InitWatcher \/ InitLive

Next == NextValidate \/ NextMerge \/ NextRuns \/ NextKpi \/ NextMacroRaw \/ NextWatcher \/ NextLive

Spec == Init /\ [][Next]_vars

----------------------------------------------------------------------------
(* Vocabulary of the properties of merge *)

StageOrder ==
    <<"stocks_raw", "company_metadata", "exchange_rates", "macro_raw", "sentiment", "kpi">>

StageTables == {"stocks_raw", "company_metadata", "exchange_rates", "macro_raw", "sentiment"}

\* the base stage has returned a non-empty valid set
BaseReturnedRows ==
    /\ "stocks_raw" \in DOMAIN ret
    /\ ~ret["stocks_raw"].none
    /\ Len(ret["stocks_raw"].rows) > 0

\* the base stage has returned, without a usable result
BaseStageFailed == "stocks_raw" \in DOMAIN ret /\ ~BaseReturnedRows

\* the load call of table t was made and raised
LoadFailed(t) == t \in DOMAIN loads /\ loads[t] = "failed"

\* the valid partition file of table t, if the stage wrote it
ValidFile(t) == IF ("valid_" \o t) \in DOMAIN files THEN files["valid_" \o t] ELSE <<>>

\* the reference map a stage hands to validate_table
StageRefs(t) == IF t \in {"company_metadata", "sentiment"} THEN mrefs ELSE NoRefs

\* no two rows of out share the key
UniqueKeys(out, key) ==
    \A a \in 1..Len(out) : \A b \in 1..Len(out) :
        KeyOf(out[a], key) = KeyOf(out[b], key) => a = b

\* out holds, for each key of rows, the last row of rows with that key
LastPerKey(out, rows, key) ==
    /\ {KeyOf(out[n], key) : n \in 1..Len(out)} = {KeyOf(rows[i], key) : i \in 1..Len(rows)}
    /\ \A n \in 1..Len(out) : \E i \in 1..Len(rows) :
          /\ out[n] = rows[i]
          /\ \A m \in (i + 1)..Len(rows) : KeyOf(rows[m], key) # KeyOf(rows[i], key)

----------------------------------------------------------------------------
(* C2 *)

\* C2: in any run of merge the company_metadata, exchange_rates, macro_raw,
\* sentiment and KPI stages are started only after the base stage has returned
\* a non-empty valid set; when the base stage fails none of them is started, no
\* fact table is computed or loaded, and merge returns no result.
Thm_C2_BaseStageGatesTheRun ==
    /\ (\E n \in 1..Len(started) : started[n] # "stocks_raw") =>
          started[1] = "stocks_raw" /\ BaseReturnedRows
    /\ (facts.ok \/ \E n \in 1..Len(FactTables) : FactTables[n] \in DOMAIN loads) => BaseReturnedRows
    /\ BaseStageFailed =>
          /\ started = <<"stocks_raw">>
          /\ ~facts.ok
          /\ \A n \in 1..Len(FactTables) :
                FactTables[n] \notin DOMAIN loads /\ FactTables[n] \notin DOMAIN files
          /\ mpc = "done"
          /\ result = "None"

\* the base stage read rows and none of them passed validation
Wit_C2_BaseWithoutValidRows ==
    /\ mpc = "done"
    /\ result = "None"
    /\ stage_in.table = "stocks_raw"
    /\ Len(stage_in.df) > 0
    /\ "valid_stocks_raw" \in DOMAIN files
    /\ Len(files["valid_stocks_raw"]) = 0

----------------------------------------------------------------------------
(* C3 *)

\* C3: once the base stage succeeded, whichever later table stages fail, every
\* later stage is attempted exactly once in the order company_metadata,
\* exchange_rates, macro_raw, sentiment, KPI, and merge ends by returning the
\* execution directory.
Thm_C3_LaterStagesAlwaysAttempted ==
    BaseReturnedRows =>
        /\ Len(started) <= Len(StageOrder)
        /\ started = SubSeq(StageOrder, 1, Len(started))
        /\ mpc # "done" => Len(started) < Len(StageOrder) /\ mpc = StageOrder[Len(started) + 1]
        /\ mpc = "done" => started = StageOrder /\ result = "exec_dir"

\* every later table stage failed and the run still ended with the KPI stage
Wit_C3_AllLaterStagesFailed ==
    /\ mpc = "done"
    /\ BaseReturnedRows
    /\ result = "exec_dir"
    /\ started = StageOrder
    /\ ret["company_metadata"].none
    /\ ~ret["exchange_rates"].none /\ Len(ret["exchange_rates"].rows) = 0
    /\ ret["macro_raw"].none
    /\ ret["sentiment"].none
    /\ ~facts.ok

----------------------------------------------------------------------------
(* C4 *)

\* C4: for every table stage, a failure of the load call made after validation
\* does not withdraw the valid partition: the stage still returns its
\* deduplicated valid partition, a load failure on stocks_raw does not abort
\* the run, and a load failure on company_metadata does not keep its valid set
\* out of the reference map.
Claim_C4_LoadFailureKeepsValidPartition ==
    \A t \in StageTables :
        LoadFailed(t) =>
            /\ t \in DOMAIN ret
            /\ ~ret[t].none
            /\ ret[t].rows = ValidFile(t)
            /\ t = "stocks_raw" => result # "None"
            /\ t = "company_metadata" => (t \in DOMAIN mrefs /\ mrefs[t] = ValidFile(t))

\* the same statement for the stages that only log the failure of the load call
C4_HoldsForLoggingStages ==
    \A t \in {"exchange_rates", "macro_raw", "sentiment"} :
        LoadFailed(t) => (t \in DOMAIN ret /\ ~ret[t].none /\ ret[t].rows = ValidFile(t))

----------------------------------------------------------------------------
(* C7 *)

\* C7: the valid partition a table stage persists and returns holds no two
\* rows with the same entity key, and for each key the last row, in input
\* order, among the rows that passed validation; analytics_summary likewise
\* for the key (ticker, year, quarter).
Thm_C7_EntityKeyUniqueKeepLast ==
    /\ \A t \in StageTables :
          /\ UniqueKeys(ValidFile(t), EntityKey(t))
          /\ (t \in DOMAIN ret /\ ~ret[t].none) => ret[t].rows = ValidFile(t)
          /\ (stage_in.table = t /\ ("valid_" \o t) \in DOMAIN files) =>
                LastPerKey(ValidFile(t),
                           RowsOf(validate_table(stage_in.df, t, StageRefs(t)).valid),
                           EntityKey(t))
    /\ facts.ok =>
          /\ UniqueKeys(facts.analytics_summary, EntityKey("analytics_summary"))
          /\ stage_in.table = "kpi"
          /\ LastPerKey(facts.analytics_summary, stage_in.df, EntityKey("analytics_summary"))

\* both deduplications dropped a row: two valid macro rows of one quarter, and
\* two analytics rows of one (ticker, year, quarter)
Wit_C7_DuplicatesDropped ==
    /\ facts.ok
    /\ Len(facts.analytics_summary) < Len(stage_in.df)
    /\ Len(ValidFile("macro_raw")) = 1
    /\ Get(ValidFile("macro_raw")[1], "GDP") = F(300)

----------------------------------------------------------------------------
(* C11 *)

\* the (column, rule) positions of the schema that carry a rule of kind op
RulesOfKind(op) ==
    {p \in (1..Len(rules)) \X (1..4) :
        p[2] <= Len(rules[p[1]].rules) /\ rules[p[1]].rules[p[2]].op = op}

\* row i fails a coercion, or a rule other than the one at position p
FailsElsewhere(i, p) ==
    \E c \in 1..Len(rules) :
        \/ CoercionFails(rules[c], Get(df[i + 1], rules[c].col))
        \/ \E j \in 1..Len(rules[c].rules) : <<c, j>> # p /\ RuleFailsOn(rules[c], j, i)

\* the trimmed, upper-cased values of the reference column of a referential rule
ReferenceValues(rule) ==
    {upper(strip(Str(Get(refs[rule.a][n], rule.b)))) : n \in 1..Len(refs[rule.a])}

\* the referential rule at position p holds on row i, or is disabled because
\* the references do not hold its table
ReferentialContract(p, i) ==
    LET conf == rules[p[1]]
        rule == conf.rules[p[2]]
        raw == Get(df[i + 1], conf.col)
    IN  IF rule.a \notin DOMAIN refs
        THEN ~FailsElsewhere(i, p) => i \in ValidIdx
        ELSE i \in ValidIdx => (notna(raw) /\ upper(strip(Str(raw))) \in ReferenceValues(rule))

\* C11: a referential rule whose table is not in the references map (or with
\* no map) never invalidates a row and raises no error; when the map has the
\* table, a row passes only if its value, trimmed and upper-cased, is among the
\* trimmed, upper-cased values of the reference column.
Claim_C11_ReferentialRule ==
    /\ Done => \A p \in RulesOfKind("referential") : \A i \in 0..(Len(df) - 1) :
                  ReferentialContract(p, i)
    /\ (vpc = "raised" /\ table_name \in DOMAIN tables_config) =>
          ~(RulesOfKind("referential") # {} /\ refs = NoRefs)

\* the same statement for the referential rules of columns that are not of
\* type integer
C11_HoldsForNonIntegerColumns ==
    /\ Done => \A p \in RulesOfKind("referential") : \A i \in 0..(Len(df) - 1) :
                  rules[p[1]].type # "integer" => ReferentialContract(p, i)
    /\ (vpc = "raised" /\ table_name \in DOMAIN tables_config) =>
          ~(RulesOfKind("referential") # {} /\ refs = NoRefs)

----------------------------------------------------------------------------
(* C12 *)

\* the ticker of row i as the company check reads it: trimmed and upper-cased
RowTicker(i) ==
    upper(strip(IF "ticker" \in DOMAIN df[i + 1] THEN Str(df[i + 1]["ticker"]) ELSE <<>>))

\* the rows of the reference table that record row i's ticker
TickerEntries(ref_df, i) ==
    {n \in 1..Len(ref_df) :
        Get(ref_df[n], "ticker").k = "str" /\ upper(strip(Get(ref_df[n], "ticker").v)) = RowTicker(i)}

\* the company the reference table records for row i's ticker (its last entry)
RecordedCompany(ref_df, i) ==
    Get(ref_df[CHOOSE n \in TickerEntries(ref_df, i) :
                   \A m \in TickerEntries(ref_df, i) : m <= n], "company")

\* the company of row i differs from the recorded one: as written, or after
\* trimming and without regard to case
CompanyDiffers(exact, i, expected) ==
    LET company_val == IF "company" \in DOMAIN df[i + 1] THEN Str(df[i + 1]["company"]) ELSE <<>>
    IN  IF exact THEN company_val # Str(expected)
        ELSE lower(strip(company_val)) # lower(strip(Str(expected)))

\* the contract of the company check, for the two notions of "differs"
MatchCompanyContract(exact) ==
    Done =>
        \A p \in RulesOfKind("match_company_for_ticker") : \A i \in 0..(Len(df) - 1) :
            LET rule == rules[p[1]].rules[p[2]]
            IN  IF rule.a \notin DOMAIN refs
                THEN ~FailsElsewhere(i, p) => i \in ValidIdx
                ELSE IF TickerEntries(refs[rule.a], i) = {}
                THEN ~FailsElsewhere(i, p) => i \in ValidIdx
                ELSE IF CompanyDiffers(exact, i, RecordedCompany(refs[rule.a], i))
                THEN i \in InvalidIdx
                ELSE ~FailsElsewhere(i, p) => i \in ValidIdx

\* C12 as stated: with the reference table supplied, a row is invalidated when
\* the table records a company for the row's ticker and the row's company
\* differs from it; a row whose ticker has no entry is never invalidated by the
\* rule, and the rule does nothing without the reference table.
Claim_C12_CompanyMismatchInvalidates == MatchCompanyContract(TRUE)

\* C12 amended: the two companies are compared after trimming and without
\* regard to case.
Thm_C12_CompanyMatch == MatchCompanyContract(FALSE)

\* one call with a rejected row (company Abc against the recorded xc) and an
\* accepted row whose company differs from the recorded one only in case
Wit_C12_MismatchAndCaseVariant ==
    /\ Done
    /\ table_name = "company_metadata"
    /\ "stocks_raw" \in DOMAIN refs
    /\ Len(df) = 2
    /\ RowTicker(0) = s_X /\ df[1].company = S(s_Abc) /\ 0 \in InvalidIdx
    /\ ~FailsElsewhere(0, <<2, 2>>)
    /\ RowTicker(1) = s_X /\ df[2].company = S(s_Xc) /\ 1 \in ValidIdx
    /\ RecordedCompany(refs["stocks_raw"], 1) = S(s_xc)

----------------------------------------------------------------------------
(* C13 *)

\* C13: validate_table called with a table name that has no schema fails with
\* a configuration error before any row is examined and returns no partitions,
\* whatever the dataset and the references.
Thm_C13_UnknownTableIsConfigurationError ==
    table_name \notin DOMAIN tables_config =>
        /\ vpc \in {"start", "raised"}
        /\ idx = 0
        /\ unique_trackers = <<>>
        /\ valid_data = <<>> /\ invalid_data = <<>>
        /\ validate_table(df, table_name, refs).raised

\* the call for an unknown table with rows and references has ended in the error
Wit_C13_UnknownTableRaised ==
    /\ vpc = "raised"
    /\ table_name \notin DOMAIN tables_config
    /\ Len(df) >= 1
    /\ refs # NoRefs

----------------------------------------------------------------------------
(* C14 *)

\* the valid partitions calculate_all_kpis reads
KpiTables == {"stocks_raw", "macro_raw", "company_metadata", "exchange_rates"}

\* the KPI stage has run
KpiReturned == mpc = "done" /\ Len(started) = Len(StageOrder)

\* C14: calculate_all_kpis returns all four fact tables or the failure
\* signal, never a subset; it returns the failure signal whenever one of the
\* four valid partition files is missing or has no rows.
Thm_C14_FactTablesAllOrNothing ==
    /\ facts.tables = {} \/ facts.tables = {FactTables[n] : n \in 1..Len(FactTables)}
    /\ facts.ok <=> facts.tables # {}
    /\ (KpiReturned /\ \E t \in KpiTables : ValidFile(t) = <<>>) => ~facts.ok

\* the run reached the KPI stage without a macro partition, the other three
\* partitions holding rows
Wit_C14_MissingMacroPartition ==
    /\ KpiReturned
    /\ "valid_macro_raw" \notin DOMAIN files
    /\ \A t \in KpiTables \ {"macro_raw"} : Len(ValidFile(t)) > 0
    /\ ~facts.ok

----------------------------------------------------------------------------
(* C15 *)

\* the stage of table t reached validation: its partitions were written
ReachedValidation(t) == ("valid_" \o t) \in DOMAIN files

\* the three files of table t are in the execution directory
ThreeFiles(t) ==
    /\ t \in merged
    /\ ("valid_" \o t) \in DOMAIN files
    /\ ("invalid_" \o t) \in DOMAIN files

\* C15: at the end of a run, every table whose stage reached validation has
\* merged_<table>.csv, valid_<table>.csv and invalid_<table>.csv in the
\* execution directory, in historical mode and in live mode alike.
Claim_C15_ThreeFilesPerValidatedTable ==
    mpc = "done" => \A t \in StageTables : ReachedValidation(t) => ThreeFiles(t)

\* what the stages do: both partitions are always written together, and the
\* merged file is written in historical mode only
C15_MergedFileInHistoricalModeOnly ==
    mpc = "done" =>
        \A t \in StageTables :
            ReachedValidation(t) =>
                /\ ("invalid_" \o t) \in DOMAIN files
                /\ t \in merged <=> history

----------------------------------------------------------------------------
(* C16 *)

\* C16: each run of merge gets its own execution directory: two distinct
\* runs, one after the other or concurrent as separate processes, never write
\* their partitions and fact tables into the same directory.
Claim_C16_OneDirectoryPerRun ==
    \A w1 \in written, w2 \in written : w1.run # w2.run => w1.dir # w2.dir

\* what execution_dir gives: runs share a directory exactly when their
\* calls of execution_dir fell into the same minute, so the runs of one
\* minute write into one directory and runs of different minutes never do
C16_DirectoryIsTheMinuteOfTheCall ==
    \A p \in DOMAIN procs, q \in DOMAIN procs :
        (p < q /\ procs[p].exec_dir # NoDir /\ procs[q].exec_dir # NoDir /\ procs[p].exec_dir # procs[q].exec_dir) =>
            \A w1 \in written, w2 \in written : (w1.run = p /\ w2.run = q) => w1.dir # w2.dir

----------------------------------------------------------------------------
(* C17 *)

\* stage t has been started
StageStarted(t) == \E i \in DOMAIN started : started[i] = t

\* C17: in a historical run the sentiment stage reads, validates, persists and
\* loads nothing and contributes no result, and the run goes on to the KPI
\* stage; a sentiment valid partition exists only in live mode.
Thm_C17_NoSentimentInHistoricalRuns ==
    /\ history =>
        /\ stage_in.table # "sentiment"
        /\ "valid_sentiment" \notin DOMAIN files
        /\ "invalid_sentiment" \notin DOMAIN files
        /\ "sentiment" \notin DOMAIN loads
        /\ "sentiment" \in DOMAIN ret => ret["sentiment"] = NoneDf
        /\ StageStarted("sentiment") =>
              /\ mpc \in {"kpi", "done"}
              /\ mpc = "done" => StageStarted("kpi")
    /\ "valid_sentiment" \in DOMAIN files => ~history

\* a historical run went through the sentiment stage and computed the fact
\* tables afterwards
Wit_C17_HistoricalRunReachedKpi ==
    /\ history
    /\ StageStarted("sentiment")
    /\ ret["sentiment"] = NoneDf
    /\ mpc = "done"
    /\ facts.ok

\* a live run produced a sentiment valid partition with rows
Wit_C17_LiveSentimentPartition ==
    /\ ~history
    /\ "valid_sentiment" \in DOMAIN files
    /\ Len(files["valid_sentiment"]) > 0

----------------------------------------------------------------------------
(* C18 *)

\* the cells of column c
ColumnCells(rows, c) == {Get(rows[n], c) : n \in 1..Len(rows)}

\* pd.DataFrame(valid_data), rules.py line 193: a column holding integers next
\* to floats or nulls, and nothing else, becomes a float column
FloatColumn(rows, c) ==
    /\ \A x \in ColumnCells(rows, c) : x.k \in {"int", "float", "null"}
    /\ \E x \in ColumnCells(rows, c) : x.k = "int"
    /\ \E x \in ColumnCells(rows, c) : x.k \in {"float", "null"}

\* a faulty construction: missing cells become the text "nan"
DataFrame_nullsAsText(rows) ==
    [n \in 1..Len(rows) |->
        [c \in DOMAIN rows[n] |->
            IF rows[n][c].k = "null" THEN S(<<"n", "a", "n">>) ELSE rows[n][c]]]

DataFrame(rows) ==
    [n \in 1..Len(rows) |->
        [c \in DOMAIN rows[n] |->
            IF FloatColumn(rows, c) /\ rows[n][c].k = "int" THEN F(10 * rows[n][c].v) ELSE rows[n][c]]]

\* validate_table applied to the valid partition it returned, no references
Revalidated == validate_table(DataFrame(RowsOf(valid_data)), table_name, NoRefs)

\* C18: re-validating the valid partition with the same schema and no
\* references classifies every row as valid and none as invalid.
Thm_C18_ValidPartitionRevalidates ==
    Done =>
        /\ ~Revalidated.raised
        /\ Len(Revalidated.invalid) = 0
        /\ Len(Revalidated.valid) = Len(valid_data)

\* the coerced and normalised values are accepted unchanged: a second pass
\* changes no cell that the dataframe construction left alone
C18_SecondPassKeepsValues ==
    Done => RowsOf(Revalidated.valid) = RowsOf(valid_data)

\* the call returned valid rows whose cells were coerced and whose integer
\* column became a float column, and the second pass accepts them all
Wit_C18_CoercedRowsAcceptedAgain ==
    /\ Done
    /\ \E n \in 1..Len(valid_data) : valid_data[n].row # df[valid_data[n].idx + 1]
    /\ FloatColumn(RowsOf(valid_data), "year")
    /\ Len(Revalidated.valid) = Len(valid_data)

----------------------------------------------------------------------------
(* C19 *)

\* the schema of table t declares no unique and no unique_trimmed rule
NoUniquenessRule(t) ==
    \A n \in 1..Len(tables_config[t]) :
        ~HasRule(tables_config[t][n], "unique") /\ ~HasRule(tables_config[t][n], "unique_trimmed")

\* the ways to pick rows of the input and put them in some order: injective
\* maps from the positions of the new dataset to the positions of df
Rearrangements ==
    UNION {{sel \in [1..k -> 1..Len(df)] : \A a \in 1..k : \A b \in 1..k : sel[a] = sel[b] => a = b} :
           k \in 0..Len(df)}

\* validate_table on the rows picked by sel classifies each of them as the
\* call on df did
SameClassification(sel) ==
    LET Agrees(out) ==
            /\ ~out.raised
            /\ \A j \in DOMAIN sel :
                  (\E n \in 1..Len(out.valid) : out.valid[n].idx = j - 1) <=> (sel[j] - 1) \in ValidIdx
    IN  Agrees(validate_table([j \in DOMAIN sel |-> df[sel[j]]], table_name, refs))

\* C19: for a schema with no unique or unique_trimmed rule, validating any
\* permutation or any subset of the input classifies each row the same way;
\* a call that an exception left classifies no row, in any order of its rows.
Thm_C19_RowsClassifiedIndependently ==
    /\ (Done /\ NoUniquenessRule(table_name)) =>
          \A sel \in Rearrangements : SameClassification(sel)
    /\ (vpc = "raised" /\ table_name \in DOMAIN tables_config /\ NoUniquenessRule(table_name)) =>
          \A sel \in Rearrangements :
              Len(sel) = Len(df) => validate_table([j \in DOMAIN sel |-> df[sel[j]]], table_name, refs).raised

\* with a uniqueness rule the order decides: some rearrangement of the input
\* classifies a row differently
C19_OrderMattersWithUniqueness ==
    /\ Done
    /\ ~NoUniquenessRule(table_name)
    /\ \E sel \in Rearrangements : ~SameClassification(sel)

\* a call on a schema without uniqueness rules returned a valid and an
\* invalid row, in either order
Wit_C19_MixedRowsWithoutUniqueness ==
    /\ Done
    /\ NoUniquenessRule(table_name)
    /\ Len(df) = 2
    /\ df[1] # df[2]
    /\ ValidIdx = {1}
    /\ InvalidIdx = {0}

\* a call on a schema without uniqueness rules was left by an exception after
\* a row that had been classified
C19_RaisedAfterClassifiedRow ==
    /\ vpc = "raised"
    /\ table_name \in DOMAIN tables_config
    /\ NoUniquenessRule(table_name)
    /\ idx >= 1

----------------------------------------------------------------------------
(* C20 *)

\* the deduplication of table t's stage
Dedupe(t, rows) == drop_duplicates(rows, EntityKey(t))

\* C20: the keep-last deduplication on a table's entity key is idempotent:
\* applied to an already deduplicated valid partition it removes no row and
\* changes no row and no row order.
Thm_C20_DeduplicationIdempotent ==
    /\ \A t \in StageTables : Dedupe(t, ValidFile(t)) = ValidFile(t)
    /\ \A t \in StageTables :
          (t \in DOMAIN ret /\ ~ret[t].none) => Dedupe(t, ret[t].rows) = ret[t].rows
    /\ stage_in.table \in StageTables =>
          Dedupe(stage_in.table, Dedupe(stage_in.table, stage_in.df)) = Dedupe(stage_in.table, stage_in.df)

\* one stage persisted a deduplicated partition of two rows and the latest
\* stage had rows sharing an entity key
Wit_C20_DeduplicatedPartitions ==
    /\ \E t \in StageTables : Len(ValidFile(t)) = 2
    /\ stage_in.table \in StageTables
    /\ Len(Dedupe(stage_in.table, stage_in.df)) < Len(stage_in.df)
    /\ Len(ValidFile(stage_in.table)) > 0

----------------------------------------------------------------------------
(* C21 *)

\* stock_facts has been computed
HasStockFacts == "stock_facts" \in DOMAIN kout

\* the rows of stock_facts of the same ticker and an earlier date than row i
EarlierRows(sf, i) ==
    {j \in 1..Len(sf) : sf[j].ticker = sf[i].ticker /\ DateLess(sf[j].date, sf[i].date)}

\* the input close of the ticker's row just before row i, NaN without one
PreviousInput(sf, i) ==
    LET Of(rs) == IF rs = {} THEN NaN
                  ELSE (CHOOSE r \in rs : \A q \in rs : ~DateLess(r.date, q.date)).close
    IN  Of({r \in kin.stocks : r.ticker = sf[i].ticker /\ DateLess(r.date, sf[i].date)})

\* the input close of row i
InputClose(sf, i) == (CHOOSE r \in kin.stocks : r.ticker = sf[i].ticker /\ r.date = sf[i].date).close

\* C21: per ticker in date order, daily_return is (close - previous close) /
\* previous close * 100 when the ticker has a previous row with a non-zero
\* close, and exactly 0 for the ticker's first row and whenever the previous
\* close is 0 or missing; it is never infinite or undefined, and a previous
\* close is never taken from another ticker.
Thm_C21_DailyReturn ==
    HasStockFacts =>
        LET sf == kout["stock_facts"]
        IN  \A i \in 1..Len(sf) :
               /\ ~IsNaN(sf[i].daily_return)
               /\ (EarlierRows(sf, i) = {} \/ IsNaN(PreviousInput(sf, i)) \/ PreviousInput(sf, i).n = 0)
                     => sf[i].daily_return = Num(0)
               /\ (~IsNaN(PreviousInput(sf, i)) /\ PreviousInput(sf, i).n # 0 /\ ~IsNaN(InputClose(sf, i)))
                     => /\ Times(sf[i].daily_return, PreviousInput(sf, i).n)
                            = Times(Sub(InputClose(sf, i), PreviousInput(sf, i)), 100 * PreviousInput(sf, i).d)
                        /\ (PreviousInput(sf, i) = Num(100) /\ InputClose(sf, i) = Num(110))
                              => sf[i].daily_return = Num(10)

\* ticker B's first row follows a row of ticker A with a non-zero close, one
\* ticker rose from 100 to 110, and a row follows a zero close
Wit_C21_FirstRowsZeroAndPricedRows ==
    /\ HasStockFacts
    /\ \E i \in 2..Len(kout["stock_facts"]) :
          /\ kout["stock_facts"][i].ticker = "B"
          /\ kout["stock_facts"][i - 1].ticker = "A"
          /\ kout["stock_facts"][i - 1].close = Num(110)
          /\ kout["stock_facts"][i].close = Num(100)
          /\ kout["stock_facts"][i].daily_return = Num(0)
    /\ \E i \in 1..Len(kout["stock_facts"]) : kout["stock_facts"][i].daily_return = Num(10)
    /\ \E i \in 2..Len(kout["stock_facts"]) :
          /\ kout["stock_facts"][i].ticker = kout["stock_facts"][i - 1].ticker
          /\ kout["stock_facts"][i - 1].close = Num(0)
          /\ kout["stock_facts"][i].close = Num(110)

----------------------------------------------------------------------------
(* C24: the recession flag of macro_facts *)

HasMacroFacts == "macro_facts" \in DOMAIN kout

\* the years of the macro input
MacroYears == {macro_year(kin.macro, r) : r \in kin.macro}

\* the mean GDP of the input rows of year y
MeanGdp(y) == mean(CellsOf({r \in kin.macro : macro_year(kin.macro, r) = y}, "GDP"))

MeanInflation(y) == mean(CellsOf({r \in kin.macro : macro_year(kin.macro, r) = y}, "inflation"))

\* the nearest earlier year of the data, 0 when y is the earliest
PreviousYear(y) ==
    IF \E z \in MacroYears : z < y
    THEN CHOOSE z \in MacroYears : z < y /\ \A w \in MacroYears : w < y => w <= z
    ELSE 0

\* mean GDP of y against the mean of the year before it in the data, in percent
YearOverYearGrowth(y) ==
    IF PreviousYear(y) = 0 \/ IsNaN(MeanGdp(y)) \/ IsNaN(MeanGdp(PreviousYear(y)))
    THEN Num(0)
    ELSE IF MeanGdp(PreviousYear(y)).n = 0 THEN Num(0)
    ELSE Times(Div(Sub(MeanGdp(y), MeanGdp(PreviousYear(y))), MeanGdp(PreviousYear(y))), 100)

\* C24: in macro_facts a year is flagged is_recession exactly when its
\* year-over-year GDP growth is negative; the earliest year of the data has
\* gdp_growth 0 and inflation_trend 0 and is not flagged; all quarterly rows
\* of one year carry the same gdp_growth, inflation_trend and is_recession.
Thm_C24_RecessionFlag ==
    HasMacroFacts =>
        /\ Cardinality(kout["macro_facts"]) = Cardinality(kin.macro)
        /\ \A r \in kout["macro_facts"] :
            /\ r.year \in MacroYears
            /\ r.gdp_growth = YearOverYearGrowth(r.year)
            /\ r.is_recession \in {0, 1}
            /\ (r.is_recession = 1) <=> Less(YearOverYearGrowth(r.year), Num(0))
            /\ PreviousYear(r.year) = 0 =>
                   r.gdp_growth = Num(0) /\ r.inflation_trend = Num(0) /\ r.is_recession = 0
            /\ \A q \in kout["macro_facts"] :
                   q.year = r.year =>
                       /\ q.gdp_growth = r.gdp_growth
                       /\ q.inflation_trend = r.inflation_trend
                       /\ q.is_recession = r.is_recession

\* a flagged year with two quarterly rows after an unflagged earliest year
Wit_C24_FlaggedYearWithTwoQuarters ==
    /\ HasMacroFacts
    /\ \E r \in kout["macro_facts"] : \E q \in kout["macro_facts"] : \E e \in kout["macro_facts"] :
           /\ r.year = q.year /\ r.quarter # q.quarter
           /\ r.is_recession = 1 /\ q.is_recession = 1
           /\ Less(r.gdp_growth, Num(0))
           /\ PreviousYear(e.year) = 0 /\ e.is_recession = 0 /\ e.year < r.year

----------------------------------------------------------------------------
(* C22: sector_rank in the emitted analytics_summary *)

KpiDone == kpc = "done"

\* the dense descending rank of row i among the rows of its group in frame
DenseRank(frame, i) ==
    Num(1 + Cardinality({frame[j].avg_return : j \in
                            {k \in SectorGroup(frame, i) :
                                Less(frame[i].avg_return, frame[k].avg_return)}}))

DenseRanked(frame) ==
    \A i \in 1..Len(frame) :
        frame[i].sector_name # "" => frame[i].sector_rank = DenseRank(frame, i)

\* no ticker of the company frame is listed under two industries
OneSectorPerTicker ==
    \A a \in 1..Len(kin.company) : \A b \in 1..Len(kin.company) :
        kin.company[a].ticker = kin.company[b].ticker =>
            kin.company[a].industry = kin.company[b].industry

\* C22: within each (sector, year, quarter) group of the emitted
\* analytics_summary, sector_rank is the dense descending rank of avg_return:
\* the highest return has rank 1, equal returns share a rank and the ranks of
\* a group are exactly 1..k for its k distinct returns.
Claim_C22_DenseRankInEmittedGroups ==
    KpiDone => DenseRanked(kout["analytics_summary"])

\* the ranks are dense in the frame they were computed on, and in the emitted
\* table when every ticker has one sector
C22_DenseRankBeforeDeduplication ==
    KpiDone =>
        /\ DenseRanked(analytics_frame(kout["stock_facts"], macro_yearly(kin.macro), kin.company))
        /\ OneSectorPerTicker => DenseRanked(kout["analytics_summary"])

\* an emitted group with three tickers, two of them with equal returns
C22_TiedReturnsInOneGroup ==
    /\ KpiDone
    /\ OneSectorPerTicker
    /\ \E i \in 1..Len(kout["analytics_summary"]) : \E j \in 1..Len(kout["analytics_summary"]) :
       \E k \in 1..Len(kout["analytics_summary"]) :
           /\ {j, k} \subseteq SectorGroup(kout["analytics_summary"], i)
           /\ i # j
           /\ kout["analytics_summary"][i].sector_rank = Num(1)
           /\ kout["analytics_summary"][j].sector_rank = Num(1)
           /\ kout["analytics_summary"][k].sector_rank = Num(2)

----------------------------------------------------------------------------
(* C23: recession_resilience_score *)

\* the years flagged in macro_facts
RecessionYears == {r.year : r \in {q \in kout["macro_facts"] : q.is_recession = 1}}

\* the rows of stock_facts of a ticker in a flagged year
RecessionRows(ticker) ==
    {i \in 1..Len(kout["stock_facts"]) :
        kout["stock_facts"][i].ticker = ticker /\ kout["stock_facts"][i].year \in RecessionYears}

RECURSIVE SumReturns(_)
SumReturns(at) ==
    IF at = {} THEN Num(0)
    ELSE LET Rest(i) == Add(kout["stock_facts"][i].daily_return, SumReturns(at \ {i}))
         IN  Rest(CHOOSE i \in at : TRUE)

\* C23: if no year of the macro data is flagged as a recession year,
\* recession_resilience_score is 0 on every row of analytics_summary;
\* otherwise a ticker's score is the mean of its daily returns over the rows
\* whose year is flagged, and 0 for a ticker with no row in a flagged year.
Thm_C23_RecessionResilienceScore ==
    KpiDone =>
        \A n \in 1..Len(kout["analytics_summary"]) :
            kout["analytics_summary"][n].recession_resilience_score =
                IF RecessionRows(kout["analytics_summary"][n].ticker) = {} THEN Num(0)
                ELSE Div(SumReturns(RecessionRows(kout["analytics_summary"][n].ticker)),
                         Num(Cardinality(RecessionRows(kout["analytics_summary"][n].ticker))))

\* a ticker with rows in a flagged and in an unflagged year and a score that
\* is not 0
Wit_C23_ScoreOverFlaggedYearOnly ==
    /\ KpiDone
    /\ \E n \in 1..Len(kout["analytics_summary"]) :
           /\ kout["analytics_summary"][n].recession_resilience_score # Num(0)
           /\ RecessionRows(kout["analytics_summary"][n].ticker) # {}
           /\ \E i \in 1..Len(kout["stock_facts"]) :
                  /\ kout["stock_facts"][i].ticker = kout["analytics_summary"][n].ticker
                  /\ kout["stock_facts"][i].year \notin RecessionYears

\* a flagged year in which one ticker has no row while another has one
C23_TickerWithoutRecessionRow ==
    /\ KpiDone
    /\ RecessionYears # {}
    /\ \E n \in 1..Len(kout["analytics_summary"]) : \E m \in 1..Len(kout["analytics_summary"]) :
           /\ RecessionRows(kout["analytics_summary"][n].ticker) = {}
           /\ RecessionRows(kout["analytics_summary"][m].ticker) # {}

\* no year is flagged
C23_NoRecessionYear ==
    KpiDone /\ RecessionYears = {} /\ Len(kout["analytics_summary"]) > 1

----------------------------------------------------------------------------
(* C25: the reference data of the dependent tables *)

InvalidFile(t) == IF ("invalid_" \o t) \in DOMAIN files THEN files["invalid_" \o t] ELSE <<>>

\* the ticker of a row as the referential rule compares it
TickerKey(row) == upper(strip(Str(Get(row, "ticker"))))

TickersOf(rows) == {TickerKey(rows[n]) : n \in 1..Len(rows)}

\* the dependent stage t has validated its input and no later stage has
DependentValidated(t) == stage_in.table = t /\ t \in {"company_metadata", "sentiment"}

\* C25: the reference data that company_metadata and sentiment are validated
\* against is exactly the base table's deduplicated valid partition of the
\* same run: a ticker that occurs in the base input only in invalid rows is
\* not in the reference set, so a dependent row carrying it fails the
\* referential check; the base table, exchange_rates and macro_raw are
\* validated with no references at all.
Thm_C25_ReferencesAreTheValidBasePartition ==
    /\ BaseReturnedRows =>
           /\ "stocks_raw" \in DOMAIN mrefs
           /\ mrefs["stocks_raw"] = ValidFile("stocks_raw")
           /\ UniqueKeys(mrefs["stocks_raw"], EntityKey("stocks_raw"))
    /\ \A t \in {"company_metadata", "sentiment"} :
           DependentValidated(t) =>
               /\ TickersOf(ValidFile(t)) \subseteq TickersOf(ValidFile("stocks_raw"))
               /\ \A n \in 1..Len(stage_in.df) :
                      TickerKey(stage_in.df[n]) \notin TickersOf(ValidFile("stocks_raw")) =>
                          TickerKey(stage_in.df[n]) \in TickersOf(InvalidFile(t))
    /\ \A t \in {"stocks_raw", "exchange_rates", "macro_raw"} :
           stage_in.table = t =>
               /\ ValidFile(t) = ValidateAndDedupe(t, stage_in.df, NoRefs).valid
               /\ InvalidFile(t) = ValidateAndDedupe(t, stage_in.df, NoRefs).invalid

\* a ticker that the base input holds only in an invalid row, carried by a
\* dependent row that went to the invalid partition
Wit_C25_TickerOnlyInInvalidBaseRows ==
    \E t \in {"company_metadata", "sentiment"} :
        /\ DependentValidated(t)
        /\ Len(ValidFile(t)) > 0
        /\ \E n \in 1..Len(stage_in.df) :
               /\ TickerKey(stage_in.df[n]) \in TickersOf(InvalidFile("stocks_raw"))
               /\ TickerKey(stage_in.df[n]) \notin TickersOf(ValidFile("stocks_raw"))
               /\ TickerKey(stage_in.df[n]) \in TickersOf(InvalidFile(t))
               /\ TickerKey(stage_in.df[n]) \notin TickersOf(ValidFile(t))

----------------------------------------------------------------------------
(* C26: the quarter range of macro_raw in historical mode *)

\* (y1, q1) is not after (y2, q2) in lexicographic order
QuarterLeq(y1, q1, y2, q2) == y1 < y2 \/ (y1 = y2 /\ q1 <= q2)

\* the row lies between the quarter of the start date and that of the end date
InQuarterRange(row) ==
    /\ QuarterLeq(qin.range.start_date.y, quarter_of(qin.range.start_date), row.year, row.quarter_num)
    /\ QuarterLeq(row.year, row.quarter_num, qin.range.end_date.y, quarter_of(qin.range.end_date))

\* the rows of all files of macro_data
SourceRows ==
    UNION {{[year |-> y, quarter_num |-> qin.files[y][n]] : n \in 1..Len(qin.files[y])} :
              y \in DOMAIN qin.files}

MacroRawFiltered == qpc \in {"validate", "done"}

C26_RangeOverThreeYears ==
    /\ qpc = "validate"
    /\ qin.range.start_date.y + 2 = qin.range.end_date.y
    /\ Len(qout.merged_df) = 7

\* files are read but every row lies outside the range
C26_NoRowInRange ==
    /\ qpc = "done"
    /\ \E y \in DOMAIN qin.files : qin.range.start_date.y <= y /\ y <= qin.range.end_date.y

----------------------------------------------------------------------------
(* C27: what the uniqueness trackers hold *)

\* the outcome of the type conversion of column c on row i (0-based)
ConversionOf(c, i) ==
    TypeConversion(rules[c].type, Trimmed(rules[c], Get(df[i + 1], rules[c].col)))

\* row i gets as far as rule j of column c: no type conversion left the
\* column loop before, the conversion of column c went on to the rule loop,
\* and no earlier rule of the column failed
ReachesRule(i, c, j) ==
    /\ \A c2 \in 1..c :
           notna(Trimmed(rules[c2], Get(df[i + 1], rules[c2].col))) =>
               ConversionOf(c2, i).ctl # "break"
    /\ notna(Trimmed(rules[c], Get(df[i + 1], rules[c].col))) => ConversionOf(c, i).ctl = "rules"
    /\ \A j2 \in 1..(j - 1) : ~RuleFailsOn(rules[c], j2, i)

\* the value of column c of row i as uniqueness rule j compares it
TrackedValue(i, c, j) ==
    UniqueKey(rules[c].rules[j], Coerced(rules[c], Get(df[i + 1], rules[c].col)))

\* row i reaches uniqueness rule j of column c with a value
ReachesWithValue(i, c, j) ==
    /\ ReachesRule(i, c, j)
    /\ notna(Coerced(rules[c], Get(df[i + 1], rules[c].col)))

\* C27: a value enters a column's uniqueness tracker as soon as a row reaches
\* that column's unique or unique_trimmed rule with it, whether or not the row
\* ends up valid, and is never removed during the call: a later row with the
\* same value is invalid even when the earlier row went to the invalid
\* partition for a failure on a later-checked column.
Thm_C27_TrackerKeepsEveryValueSeen ==
    vpc \in {"rows", "done"} =>
        \A p \in RulesOfKind("unique") \cup RulesOfKind("unique_trimmed") :
            \A a \in 0..(idx - 1) :
                ReachesWithValue(a, p[1], p[2]) =>
                    /\ TrackedValue(a, p[1], p[2]) \in TrackerGet(unique_trackers, rules[p[1]].col)
                    /\ \A b \in (a + 1)..(idx - 1) :
                           (/\ notna(Coerced(rules[p[1]], Get(df[b + 1], rules[p[1]].col)))
                            /\ TrackedValue(b, p[1], p[2]) = TrackedValue(a, p[1], p[2]))
                               => b \in InvalidIdx

\* two rows with the same account: the first is invalid for its label, a
\* column checked after account, the second fails nothing but the uniqueness
\* rule, and the value is in the tracker and in no valid row
Wit_C27_ValueAbsentFromValidPartition ==
    /\ Done
    /\ table_name = "ledger"
    /\ Len(df) = 2
    /\ ReachesWithValue(0, 1, 2)
    /\ ~RuleFailsOn(rules[1], 2, 0)
    /\ TrackedValue(0, 1, 2) = TrackedValue(1, 1, 2)
    /\ TrackedValue(0, 1, 2) \in TrackerGet(unique_trackers, "account")
    /\ OnlyUniquenessCanFail(1)
    /\ InvalidIdx = {0, 1}
    /\ ValidIdx = {}

\* two rows with different values: both are in the tracker at the end
C27_TwoValuesTracked ==
    /\ Done
    /\ Len(df) = 2
    /\ \E p \in RulesOfKind("unique") \cup RulesOfKind("unique_trimmed") :
           /\ ReachesWithValue(0, p[1], p[2])
           /\ ReachesWithValue(1, p[1], p[2])
           /\ TrackedValue(0, p[1], p[2]) # TrackedValue(1, p[1], p[2])
           /\ Cardinality(TrackerGet(unique_trackers, rules[p[1]].col)) = 2

----------------------------------------------------------------------------
(* C28: one historical process per config path *)

\* C28: for a config path whose historical run is still in progress the
\* watcher launches no second check.py process: after a created and a
\* modified event for one config file, or with two handler threads on one
\* path, at most one historical process for the path is running at any time.
Claim_C28_OneHistoricalRunPerPath ==
    \A path \in DOMAIN historical : historical[path] <= 1

\* the same bound for the processes a handler has started and not yet left
\* behind: it fails too, two threads can pass the test of line 48 together
C28_OneHandlerPerPath ==
    \A path \in ConfigPaths :
        Cardinality({t \in DOMAIN handlers :
                        handlers[t].path = path /\ handlers[t].pc \in {"process", "finally"}}) <= 1

----------------------------------------------------------------------------
(* C29: the skip test and the write of stocks_live *)

\* the call of c began after the call of d had ended
RanAfter(c, d) == collectors[c].pc # "idle" /\ d \in collectors[c].after

\* the calls of c and d overlapped
Overlapped(c, d) == ~RanAfter(c, d) /\ ~RanAfter(d, c)

\* the processes that wrote today's stocks.csv
Writers == {stocks_csv.writers[n] : n \in 1..Len(stocks_csv.writers)}

\* C29 as stated: the skip test is not atomic with the write, so concurrent
\* collections can both write; when two collections run strictly one after
\* the other, the second always skips and the file is never overwritten.
Claim_C29_SecondRunAlwaysSkips ==
    /\ \A c \in DOMAIN collectors : \A d \in DOMAIN collectors :
           (RanAfter(c, d) /\ collectors[c].pc \in {"save", "done"}) =>
               collectors[c].outcome \in {"skipped", "no_companies"}
    /\ \A c \in Writers : \A d \in Writers : c # d => Overlapped(c, d)

\* C29 amended: when two collections run strictly one after the other, the
\* second skips whenever the first wrote the file, and a file is only ever
\* written again by a collection that overlapped with the one that wrote it.
Thm_C29_SkipAfterWrittenFile ==
    /\ \A c \in DOMAIN collectors : \A d \in DOMAIN collectors :
           (RanAfter(c, d) /\ collectors[d].outcome = "saved") =>
               /\ collectors[c].pc \in {"check", "done"}
               /\ collectors[c].outcome \in {"", "skipped", "no_companies"}
    /\ \A c \in Writers : \A d \in Writers : c # d => Overlapped(c, d)
    /\ Len(stocks_csv.writers) = Cardinality(Writers)

\* two concurrent collections both passed the test and both wrote the file
Wit_C29_BothPassedAndWrote ==
    \E c \in DOMAIN collectors : \E d \in DOMAIN collectors :
        /\ c # d
        /\ Overlapped(c, d)
        /\ collectors[c].outcome = "saved"
        /\ collectors[d].outcome = "saved"
        /\ Len(stocks_csv.writers) >= 2

\* a collection that ran after one that wrote the file, and skipped
C29_SecondSkipped ==
    \E c \in DOMAIN collectors : \E d \in DOMAIN collectors :
        RanAfter(c, d) /\ collectors[d].outcome = "saved" /\ collectors[c].outcome = "skipped"

\* a collection that ran after one that found no quotes, and wrote the file
C29_SecondWroteAfterEmptyFirst ==
    \E c \in DOMAIN collectors : \E d \in DOMAIN collectors :
        RanAfter(c, d) /\ collectors[d].outcome = "nothing" /\ collectors[c].outcome = "saved"

----------------------------------------------------------------------------
(* C30: the KPI stage fails *)

\* the KPI stage of the run has ended without fact tables
KpiStageFailed ==
    /\ mpc = "done"
    /\ \E n \in 1..Len(started) : started[n] = "kpi"
    /\ ~facts.ok

\* a load call was made for a fact table
FactTableLoaded == \E n \in 1..Len(FactTables) : FactTables[n] \in DOMAIN loads

\* the partition files of the execution directory
Partitions ==
    [n \in {m \in DOMAIN files : \E t \in StageTables : m \in {"valid_" \o t, "invalid_" \o t}} |->
        files[n]]

\* C30: merge loads fact tables into the warehouse only when
\* calculate_all_kpis returned all four tables; when the KPI stage fails no
\* fact table is loaded, the valid and invalid partitions persisted by the
\* earlier stages are left unchanged, and merge still returns the execution
\* directory.
Thm_C30_KpiFailureLoadsNothing ==
    /\ [](FactTableLoaded =>
              facts.ok /\ facts.tables = {FactTables[n] : n \in 1..Len(FactTables)})
    /\ [](KpiStageFailed => ~FactTableLoaded /\ result = "exec_dir")
    /\ [][(mpc = "kpi" /\ ~facts'.ok) =>
              /\ Partitions' = Partitions
              /\ loads' = loads
              /\ result' = "exec_dir"]_vars

\* a run whose KPI stage failed after the base partitions were written
Wit_C30_KpiFailedAfterPartitions ==
    /\ KpiStageFailed
    /\ Len(ValidFile("stocks_raw")) > 0
    /\ "valid_company_metadata" \in DOMAIN files
    /\ ~FactTableLoaded
    /\ result = "exec_dir"

\* the failure signal: an input partition of the KPI engine is missing
C30_KpiInputMissing == KpiStageFailed /\ KpiReturnsNone(files)

\* the failure of a table computation after stock_facts.csv was written
C30_KpiFailedMidway == KpiStageFailed /\ "stock_facts" \in DOMAIN files

====
